---------------------------- MODULE Spec2Model ----------------------------
(***************************************************************************)
(* Project-plan extraction and inline rendering of the chat application,   *)
(* and the server's send-message route with its plan-request detection.    *)
(*                                                                         *)
(* Text is modelled as a sequence of chunks.  A chunk is a piece of the    *)
(* message text that the code never looks inside: one JSON punctuation     *)
(* character, one whitespace character, one letter, one digit, a field     *)
(* name, the literal null, or one of the two sentinel tags.  No sentinel   *)
(* can straddle two chunks (no other chunk contains "<"), so indexOf on    *)
(* chunks finds exactly the occurrences indexOf finds on characters, and   *)
(* positions are counted in chunks.                                        *)
(***************************************************************************)
EXTENDS Integers, Sequences, FiniteSets, TLC

\* ------------------------------------------------------------------------
\* Bounds of the model
\* ------------------------------------------------------------------------
MaxText == 2          \* longest free text before the plan block, in chunks
MaxWorkstreams == 2   \* most workstreams in a generated plan
MaxDeliverables == 2  \* most deliverables in a generated workstream
MaxRenders == 2       \* most (re-)renders / calls on one message
MaxWords == 3         \* longest text given to the plan-request detection
MaxChats == 1         \* most chats created in the store
MaxRequests == 2      \* most send-message requests, overlapping or not
MaxModelSends == 1    \* most send-message requests beside model updates
MaxPath == 3          \* longest request URL after its first chunk, in chunks
MaxCreated == 2       \* most chats created from the home page
MaxResponse == 4      \* longest response given to both extractors, in chunks

\* ------------------------------------------------------------------------
\* Chunks
\* ------------------------------------------------------------------------
OPEN == "<project_plan>"
CLOSE == "</project_plan>"

LBRACE == "{"
RBRACE == "}"
LBRACK == "["
RBRACK == "]"
COLON == ":"
COMMA == ","
QUOTE == "\""
SP == " "
LETTER == "a"
DIGIT == "1"
NULLLIT == "null"

NEWLINE == "\n"

\* String.prototype.trim / JSON whitespace / the regular expression's \s:
\* the whitespace chunks.
IsSpace(c) == c \in {SP, NEWLINE}

\* ------------------------------------------------------------------------
\* String operations used by the parser
\* ------------------------------------------------------------------------
\* content.indexOf(tag): 0-based position of the first occurrence, or -1.
RECURSIVE Scan(_, _, _)
\* First position at or after i (1-based) holding chunk c; Len + 1 if none.
Scan(content, c, i) ==
  IF i > Len(content) \/ content[i] = c THEN i ELSE Scan(content, c, i + 1)

IndexOf(content, tag) ==
  LET i == Scan(content, tag, 1)
  IN IF i > Len(content) THEN -1 ELSE i - 1

\* content.slice(from, to) for 0 <= from, to <= length (0-based, to excluded).
Slice(content, from, to) ==
  IF to <= from THEN <<>> ELSE SubSeq(content, from + 1, to)

\* s.trim(): strip leading and trailing whitespace.
RECURSIVE TrimStart(_, _)
\* First position at or after i that holds no whitespace; Len + 1 if none.
TrimStart(s, i) ==
  IF i > Len(s) \/ ~IsSpace(s[i]) THEN i ELSE TrimStart(s, i + 1)

RECURSIVE TrimEnd(_, _)
\* Last position at or before i that holds no whitespace; 0 if none.
TrimEnd(s, i) ==
  IF i < 1 \/ ~IsSpace(s[i]) THEN i ELSE TrimEnd(s, i - 1)

Trim(s) == SubSeq(s, TrimStart(s, 1), TrimEnd(s, Len(s)))

\* ------------------------------------------------------------------------
\* JavaScript values (the range of JSON.parse, plus undefined).
\* Every value has the same four fields so that any two can be compared.
\* ------------------------------------------------------------------------
Undefined == [t |-> "undefined", s |-> <<>>, a |-> <<>>, o |-> <<>>]
JNull == [t |-> "null", s |-> <<>>, a |-> <<>>, o |-> <<>>]
JNum(digits) == [t |-> "number", s |-> digits, a |-> <<>>, o |-> <<>>]
JStr(chunks) == [t |-> "string", s |-> chunks, a |-> <<>>, o |-> <<>>]
JArr(elems) == [t |-> "array", s |-> <<>>, a |-> elems, o |-> <<>>]
JObj(members) == [t |-> "object", s |-> <<>>, a |-> <<>>, o |-> members]

\* !v : the falsy values among those modelled (undefined, null, "").
Falsy(v) ==
  \/ v.t \in {"undefined", "null"}
  \/ v.t = "string" /\ v.s = <<>>

\* typeof v
TypeOf(v) ==
  CASE v.t = "undefined" -> "undefined"
    [] v.t = "number" -> "number"
    [] v.t = "string" -> "string"
    [] OTHER -> "object"

\* Array.isArray(v)
IsArray(v) == v.t = "array"

\* (v as Record<string, unknown>)[key] for the field names the guards read;
\* an absent property, and any of these names on an array, reads undefined.
Get(v, key) ==
  IF v.t = "object" /\ \E i \in 1..Len(v.o) : v.o[i].k = key
  THEN v.o[CHOOSE i \in 1..Len(v.o) : v.o[i].k = key].v
  ELSE Undefined

\* Object property definition during JSON.parse: a repeated key replaces
\* the earlier value and keeps its position.
Put(members, key, val) ==
  IF \E i \in 1..Len(members) : members[i].k = key
  THEN [i \in 1..Len(members) |->
          IF members[i].k = key THEN [k |-> key, v |-> val] ELSE members[i]]
  ELSE Append(members, [k |-> key, v |-> val])

\* ------------------------------------------------------------------------
\* JSON.parse(text): recursive descent over the chunks.  The result is
\* [threw |-> TRUE] for a SyntaxError, or the decoded value.
\* ------------------------------------------------------------------------
ParseFail == [ok |-> FALSE, v |-> Undefined, i |-> 0]

\* Position of the first non-whitespace chunk at or after i (Len + 1 if none).
SkipWs(t, i) == TrimStart(t, i)

\* A string literal opening at position i: up to the next quote.
ParseString(t, i) ==
  LET j == Scan(t, QUOTE, i + 1)
  IN IF j > Len(t) THEN ParseFail
     ELSE [ok |-> TRUE, v |-> JStr(SubSeq(t, i + 1, j - 1)), i |-> j + 1]

\* A number literal starting at position i: the longest run of digits.
RECURSIVE SkipDigits(_, _)
SkipDigits(t, i) ==
  IF i > Len(t) \/ t[i] # DIGIT THEN i ELSE SkipDigits(t, i + 1)

ParseNumber(t, i) ==
  LET j == SkipDigits(t, i)
  IN [ok |-> TRUE, v |-> JNum(SubSeq(t, i, j - 1)), i |-> j]

RECURSIVE ParseValue(_, _)
RECURSIVE ParseElements(_, _, _)
RECURSIVE ParseMembers(_, _, _)

\* One JSON value starting at or after position i.
ParseValue(t, i) ==
  LET j == SkipWs(t, i)
  IN IF j > Len(t) THEN ParseFail
     ELSE CASE t[j] = LBRACE ->
                 LET k == SkipWs(t, j + 1)
                 IN IF k <= Len(t) /\ t[k] = RBRACE
                    THEN [ok |-> TRUE, v |-> JObj(<<>>), i |-> k + 1]
                    ELSE ParseMembers(t, j + 1, <<>>)
            [] t[j] = LBRACK ->
                 LET k == SkipWs(t, j + 1)
                 IN IF k <= Len(t) /\ t[k] = RBRACK
                    THEN [ok |-> TRUE, v |-> JArr(<<>>), i |-> k + 1]
                    ELSE ParseElements(t, j + 1, <<>>)
            [] t[j] = QUOTE -> ParseString(t, j)
            [] t[j] = DIGIT -> ParseNumber(t, j)
            [] t[j] = NULLLIT -> [ok |-> TRUE, v |-> JNull, i |-> j + 1]
            [] OTHER -> ParseFail

\* The elements of an array from position i on; acc holds those read so far.
ParseElements(t, i, acc) ==
  LET r == ParseValue(t, i)
  IN IF ~r.ok THEN ParseFail
     ELSE LET k == SkipWs(t, r.i)
          IN IF k > Len(t) THEN ParseFail
             ELSE CASE t[k] = COMMA -> ParseElements(t, k + 1, Append(acc, r.v))
                    [] t[k] = RBRACK ->
                         [ok |-> TRUE, v |-> JArr(Append(acc, r.v)), i |-> k + 1]
                    [] OTHER -> ParseFail

\* The members of an object from position i on; acc holds those read so far.
ParseMembers(t, i, acc) ==
  LET j == SkipWs(t, i)
  IN IF j > Len(t) \/ t[j] # QUOTE THEN ParseFail
     ELSE LET key == ParseString(t, j)
          IN IF ~key.ok THEN ParseFail
             ELSE LET c == SkipWs(t, key.i)
                  IN IF c > Len(t) \/ t[c] # COLON THEN ParseFail
                     ELSE LET r == ParseValue(t, c + 1)
                          IN IF ~r.ok THEN ParseFail
                             ELSE LET k == SkipWs(t, r.i)
                                      members == Put(acc, key.v.s, r.v)
                                  IN IF k > Len(t) THEN ParseFail
                                     ELSE CASE t[k] = COMMA ->
                                                 ParseMembers(t, k + 1, members)
                                            [] t[k] = RBRACE ->
                                                 [ok |-> TRUE, v |-> JObj(members),
                                                  i |-> k + 1]
                                            [] OTHER -> ParseFail

\* JSON.parse(text): exactly one value, nothing but whitespace around it.
JSONparse(text) ==
  LET r == ParseValue(text, 1)
  IN IF r.ok /\ SkipWs(text, r.i) > Len(text)
     THEN [threw |-> FALSE, v |-> r.v]
     ELSE [threw |-> TRUE, v |-> Undefined]

\* ------------------------------------------------------------------------
\* The JSON text of a value, as the assistant is instructed to write it:
\* no whitespace, members in order.
\* ------------------------------------------------------------------------
RECURSIVE JSONstringify(_)
RECURSIVE StringifyElements(_)
RECURSIVE StringifyMembers(_)

JSONstringify(v) ==
  CASE v.t = "null" -> <<NULLLIT>>
    [] v.t = "number" -> v.s
    [] v.t = "string" -> <<QUOTE>> \o v.s \o <<QUOTE>>
    [] v.t = "array" -> <<LBRACK>> \o StringifyElements(v.a) \o <<RBRACK>>
    [] v.t = "object" -> <<LBRACE>> \o StringifyMembers(v.o) \o <<RBRACE>>
    [] OTHER -> <<>>

StringifyElements(elems) ==
  IF elems = <<>> THEN <<>>
  ELSE JSONstringify(Head(elems))
         \o (IF Len(elems) > 1 THEN <<COMMA>> ELSE <<>>)
         \o StringifyElements(Tail(elems))

StringifyMembers(members) ==
  IF members = <<>> THEN <<>>
  ELSE <<QUOTE>> \o Head(members).k \o <<QUOTE, COLON>>
         \o JSONstringify(Head(members).v)
         \o (IF Len(members) > 1 THEN <<COMMA>> ELSE <<>>)
         \o StringifyMembers(Tail(members))

\* ------------------------------------------------------------------------
\* Structural validator (type guards)
\* ------------------------------------------------------------------------
\* isNonEmptyString without the trim.
isNonEmptyString_NoTrim(v) == TypeOf(v) = "string" /\ Len(v.s) > 0

isNonEmptyString(v) == TypeOf(v) = "string" /\ Len(Trim(v.s)) > 0

isDeliverable(v) ==
  IF Falsy(v) \/ TypeOf(v) # "object" THEN FALSE
  ELSE /\ isNonEmptyString(Get(v, <<"title">>))
       /\ isNonEmptyString(Get(v, <<"description">>))

\* isWorkstream that checks deliverables to be an array but not its elements.
isWorkstream_SkipsDeliverables(v) ==
  IF Falsy(v) \/ TypeOf(v) # "object" THEN FALSE
  ELSE /\ isNonEmptyString(Get(v, <<"title">>))
       /\ isNonEmptyString(Get(v, <<"description">>))
       /\ IsArray(Get(v, <<"deliverables">>))

isWorkstream(v) ==
  IF Falsy(v) \/ TypeOf(v) # "object" THEN FALSE
  ELSE LET deliverables == Get(v, <<"deliverables">>)
       IN /\ isNonEmptyString(Get(v, <<"title">>))
          /\ isNonEmptyString(Get(v, <<"description">>))
          /\ IsArray(deliverables)
          /\ \A i \in 1..Len(deliverables.a) : isDeliverable(deliverables.a[i])

isProjectPlan(v) ==
  IF Falsy(v) \/ TypeOf(v) # "object" THEN FALSE
  ELSE LET workstreams == Get(v, <<"workstreams">>)
       IN /\ IsArray(workstreams)
          /\ \A i \in 1..Len(workstreams.a) : isWorkstream(workstreams.a[i])

\* ------------------------------------------------------------------------
\* The parser
\* ------------------------------------------------------------------------
NoBlock ==
  [found |-> FALSE, beforeText |-> <<>>, jsonText |-> <<>>, afterText |-> <<>>]

\* splitByProjectPlanTag whose afterText starts at the closing sentinel.
splitByProjectPlanTag_KeepsClose(content) ==
  LET start == IndexOf(content, OPEN)
      end == IndexOf(content, CLOSE)
  IN IF start = -1 \/ end = -1 \/ end <= start THEN NoBlock
     ELSE [found |-> TRUE,
           beforeText |-> Slice(content, 0, start),
           jsonText |-> Trim(Slice(content, start + 1, end)),
           afterText |-> Slice(content, end, Len(content))]

\* splitByProjectPlanTag that looks for the last closing sentinel.
splitByProjectPlanTag_LastClose(content) ==
  LET start == IndexOf(content, OPEN)
      ends == {i \in 1..Len(content) : content[i] = CLOSE}
      end == IF ends = {} THEN -1
             ELSE (CHOOSE i \in ends : \A j \in ends : j <= i) - 1
  IN IF start = -1 \/ end = -1 \/ end <= start THEN NoBlock
     ELSE [found |-> TRUE,
           beforeText |-> Slice(content, 0, start),
           jsonText |-> Trim(Slice(content, start + 1, end)),
           afterText |-> Slice(content, end + 1, Len(content))]

\* splitByProjectPlanTag without the order test end <= start.
splitByProjectPlanTag_NoOrderTest(content) ==
  LET start == IndexOf(content, OPEN)
      end == IndexOf(content, CLOSE)
  IN IF start = -1 \/ end = -1 THEN NoBlock
     ELSE [found |-> TRUE,
           beforeText |-> Slice(content, 0, start),
           jsonText |-> Trim(Slice(content, start + 1, end)),
           afterText |-> Slice(content, end + 1, Len(content))]

\* splitByProjectPlanTag(content); found = FALSE stands for null.
\* A sentinel is one chunk long.
splitByProjectPlanTag(content) ==
  LET start == IndexOf(content, OPEN)
      end == IndexOf(content, CLOSE)
  IN IF start = -1 \/ end = -1 \/ end <= start
     THEN NoBlock
     ELSE [found |-> TRUE,
           beforeText |-> Slice(content, 0, start),
           jsonText |-> Trim(Slice(content, start + 1, end)),
           afterText |-> Slice(content, end + 1, Len(content))]

\* A returned ParsedProjectPlanMessage; projectPlan = JNull stands for null.
Returned(before, after, plan) ==
  [raised |-> FALSE, beforeText |-> before, afterText |-> after,
   projectPlan |-> plan]

\* An exception leaving the function.
Raised ==
  [raised |-> TRUE, beforeText |-> <<>>, afterText |-> <<>>,
   projectPlan |-> JNull]

\* The tagged branch of parseProjectPlanMessage, shared by its variants.
TaggedResult(content, tagged) ==
  LET parsed == JSONparse(tagged.jsonText)
  IN IF parsed.threw
     THEN Returned(content, <<>>, JNull)
     ELSE Returned(tagged.beforeText, tagged.afterText,
                   IF isProjectPlan(parsed.v) THEN parsed.v ELSE JNull)

\* parseProjectPlanMessage without the try/catch around JSON.parse.
parseProjectPlanMessage_NoCatch(content, projectPlan) ==
  LET tagged == splitByProjectPlanTag(content)
  IN IF tagged.found
     THEN IF JSONparse(tagged.jsonText).threw THEN Raised
          ELSE TaggedResult(content, tagged)
     ELSE IF ~Falsy(projectPlan) /\ isProjectPlan(projectPlan)
          THEN Returned(content, <<>>, projectPlan)
          ELSE Returned(content, <<>>, JNull)

\* parseProjectPlanMessage whose catch keeps the split of the tags.
parseProjectPlanMessage_CatchKeepsSplit(content, projectPlan) ==
  LET tagged == splitByProjectPlanTag(content)
  IN IF tagged.found
     THEN IF JSONparse(tagged.jsonText).threw
          THEN Returned(tagged.beforeText, tagged.afterText, JNull)
          ELSE TaggedResult(content, tagged)
     ELSE IF ~Falsy(projectPlan) /\ isProjectPlan(projectPlan)
          THEN Returned(content, <<>>, projectPlan)
          ELSE Returned(content, <<>>, JNull)

\* parseProjectPlanMessage without the side-channel fallback.
parseProjectPlanMessage_NoFallback(content, projectPlan) ==
  LET tagged == splitByProjectPlanTag(content)
  IN IF tagged.found THEN TaggedResult(content, tagged)
     ELSE Returned(content, <<>>, JNull)

\* parseProjectPlanMessage that takes a truthy side channel unvalidated.
parseProjectPlanMessage_TrustsSideChannel(content, projectPlan) ==
  LET tagged == splitByProjectPlanTag(content)
  IN IF tagged.found THEN TaggedResult(content, tagged)
     ELSE IF ~Falsy(projectPlan)
          THEN Returned(content, <<>>, projectPlan)
          ELSE Returned(content, <<>>, JNull)

\* parseProjectPlanMessage that falls back to the side channel whenever the
\* tag block gave no plan.
parseProjectPlanMessage_FallbackAfterBlock(content, projectPlan) ==
  LET tagged == splitByProjectPlanTag(content)
      first == TaggedResult(content, tagged)
  IN IF tagged.found /\ ~Falsy(first.projectPlan) THEN first
     ELSE IF ~Falsy(projectPlan) /\ isProjectPlan(projectPlan)
          THEN Returned(IF tagged.found THEN first.beforeText ELSE content,
                        IF tagged.found THEN first.afterText ELSE <<>>,
                        projectPlan)
          ELSE IF tagged.found THEN first ELSE Returned(content, <<>>, JNull)

\* parseProjectPlanMessage({content, projectPlan})
parseProjectPlanMessage(content, projectPlan) ==
  LET tagged == splitByProjectPlanTag(content)
  IN IF tagged.found
     THEN LET parsed == JSONparse(tagged.jsonText)
          IN IF parsed.threw
             THEN Returned(content, <<>>, JNull)
             ELSE Returned(tagged.beforeText, tagged.afterText,
                           IF isProjectPlan(parsed.v) THEN parsed.v ELSE JNull)
     ELSE IF ~Falsy(projectPlan) /\ isProjectPlan(projectPlan)
          THEN Returned(content, <<>>, projectPlan)
          ELSE Returned(content, <<>>, JNull)

\* ------------------------------------------------------------------------
\* The renderer
\* ------------------------------------------------------------------------
\* The header line of a text block: none.
NoPanel == [count |-> 0, text |-> <<>>]

\* ProjectPlanPreview with the singular form for fewer than two workstreams.
ProjectPlanPreview_SingularBelowTwo(plan) ==
  LET length == Len(Get(plan, <<"workstreams">>).a)
  IN [count |-> length,
      text  |-> <<SP, "workstream">> \o (IF length <= 1 THEN <<>> ELSE <<"s">>)]

\* The header line of the plan panel: the number of workstreams, then
\* " workstream" and the suffix "" or "s".
ProjectPlanPreview(plan) ==
  LET length == Len(Get(plan, <<"workstreams">>).a)
  IN [count |-> length,
      text  |-> <<SP, "workstream">> \o (IF length = 1 THEN <<>> ELSE <<"s">>)]

TextRegion(text) ==
  [kind |-> "text", text |-> text, plan |-> JNull, panel |-> NoPanel]
PlanRegion(plan) ==
  [kind |-> "plan", text |-> <<>>, plan |-> plan,
   panel |-> ProjectPlanPreview(plan)]

\* MessageBody without the length guards on the two text blocks.
Regions_NoSuppression(parsed) ==
     <<TextRegion(Trim(parsed.beforeText))>>
  \o (IF ~Falsy(parsed.projectPlan)
        THEN <<PlanRegion(parsed.projectPlan)>> ELSE <<>>)
  \o <<TextRegion(Trim(parsed.afterText))>>

\* MessageBody with the plan panel moved below both text blocks.
Regions_PlanLast(parsed) ==
     (IF Len(Trim(parsed.beforeText)) > 0
        THEN <<TextRegion(Trim(parsed.beforeText))>> ELSE <<>>)
  \o (IF Len(Trim(parsed.afterText)) > 0
        THEN <<TextRegion(Trim(parsed.afterText))>> ELSE <<>>)
  \o (IF ~Falsy(parsed.projectPlan)
        THEN <<PlanRegion(parsed.projectPlan)>> ELSE <<>>)

\* The children MessageBody emits for a parsed message, in order.
Regions(parsed) ==
  (IF Len(Trim(parsed.beforeText)) > 0
   THEN <<TextRegion(Trim(parsed.beforeText))>> ELSE <<>>)
  \o (IF ~Falsy(parsed.projectPlan)
      THEN <<PlanRegion(parsed.projectPlan)>> ELSE <<>>)
  \o (IF Len(Trim(parsed.afterText)) > 0
      THEN <<TextRegion(Trim(parsed.afterText))>> ELSE <<>>)

\* ------------------------------------------------------------------------
\* Values the assistant and the server can hand to the client
\* ------------------------------------------------------------------------
Member(key, val) == [k |-> <<key>>, v |-> val]

Deliverable(title, description) ==
  JObj(<<Member("title", title), Member("description", description)>>)

Workstream(title, description, deliverables) ==
  JObj(<<Member("title", title), Member("description", description),
         Member("deliverables", deliverables)>>)

ProjectPlan(workstreams) == JObj(<<Member("workstreams", workstreams)>>)

\* All sequences over S of length at most n.
SeqsUpTo(S, n) == UNION {[1..m -> S] : m \in 0..n}

Word == JStr(<<LETTER>>)

GoodDeliverable == Deliverable(Word, Word)

\* A deliverable without its description.
BadDeliverable == JObj(<<Member("title", Word)>>)

\* A workstream without its deliverables, and null in a workstream's place.
BadWorkstreams ==
  { JObj(<<Member("title", Word), Member("description", Word)>>), JNull }

\* A well-formed workstream with k deliverables.
GoodWorkstream(k) ==
  Workstream(Word, Word, JArr([j \in 1..k |-> GoodDeliverable]))

\* The shape of a plan: the number of deliverables of each workstream.
Shapes == SeqsUpTo(0..MaxDeliverables, MaxWorkstreams)

GoodPlan(shape) ==
  ProjectPlan(JArr([i \in 1..Len(shape) |-> GoodWorkstream(shape[i])]))

\* The plan of a shape with a broken node in place of workstream i.
WithBadWorkstream(shape, i, bad) ==
  ProjectPlan(JArr([x \in 1..Len(shape) |->
    IF x = i THEN bad ELSE GoodWorkstream(shape[x])]))

\* The plan of a shape with deliverable j of workstream i broken.
WithBadDeliverable(shape, i, j) ==
  ProjectPlan(JArr([x \in 1..Len(shape) |->
    IF x = i
    THEN Workstream(Word, Word, JArr([y \in 1..shape[x] |->
           IF y = j THEN BadDeliverable ELSE GoodDeliverable]))
    ELSE GoodWorkstream(shape[x])]))

\* Every well-formed plan of every shape, and every plan with one broken
\* node at one place.
GeneratedPlans ==
  { GoodPlan(shape) : shape \in Shapes }
  \cup UNION { { WithBadWorkstream(shape, i, bad) :
                   i \in 1..Len(shape), bad \in BadWorkstreams } :
               shape \in Shapes }
  \cup UNION { UNION { { WithBadDeliverable(shape, i, j) : j \in 1..shape[i] } :
                       i \in 1..Len(shape) } :
               shape \in Shapes }

\* A plan with one workstream whose title is the given string.
TitledPlan(title) ==
  ProjectPlan(JArr(<<Workstream(title, Word, JArr(<<GoodDeliverable>>))>>))

\* Values of other shapes: non-records, wrongly typed fields, blank strings,
\* and strings that contain a sentinel.
SpecialValues ==
  { JNull, JNum(<<DIGIT>>), JStr(<<>>), JStr(<<LETTER>>), JArr(<<>>),
    JObj(<<>>),
    ProjectPlan(JNull),
    ProjectPlan(JObj(<<>>)),
    ProjectPlan(JArr(<<JObj(<<Member("title", Word)>>)>>)),
    ProjectPlan(JArr(<<Workstream(Word, Word, JObj(<<>>))>>)),
    ProjectPlan(JArr(<<Workstream(Word, Word, JArr(<<Word>>))>>)),
    ProjectPlan(JArr(<<Workstream(Word, Word, JArr(<<JArr(<<>>)>>))>>)),
    ProjectPlan(JArr(<<Workstream(Word, JNum(<<DIGIT>>), JArr(<<>>))>>)),
    ProjectPlan(JArr(<<Workstream(Word, Word,
                  JArr(<<Deliverable(Word, JStr(<<SP>>))>>))>>)),
    ProjectPlan(JArr(<<Workstream(Word, Word,
                  JArr(<<Deliverable(JStr(<<>>), Word)>>))>>)),
    ProjectPlan(JArr(<<Workstream(Word, Word,
                  JArr(<<Deliverable(JStr(<<CLOSE>>), Word)>>))>>)),
    TitledPlan(JStr(<<SP>>)),
    TitledPlan(JStr(<<>>)),
    ProjectPlan(JArr(<<Workstream(Word, JStr(<<SP, SP>>), JArr(<<>>))>>)),
    TitledPlan(JStr(<<SP, LETTER, SP>>)),
    TitledPlan(JStr(<<CLOSE>>)),
    TitledPlan(JStr(<<LETTER, OPEN>>)),
    TitledPlan(JStr(<<COMMA, RBRACE>>)) }

Values == GeneratedPlans \cup SpecialValues

EmptyPlan == ProjectPlan(JArr(<<>>))
SmallPlan == TitledPlan(Word)

\* Payloads that are not the JSON text of any value.
MalformedPayloads ==
  { <<>>, <<SP>>, <<LBRACE>>, <<LBRACE, LETTER>>,
    <<LBRACE, RBRACE, LBRACE, RBRACE>>,
    SubSeq(JSONstringify(SmallPlan), 1, Len(JSONstringify(SmallPlan)) - 1) }

\* A payload with the value whose JSON text it is (undefined if none).
Payload(plan, text) == [plan |-> plan, text |-> text]

\* The payloads tried in every context.
CorePayloads ==
  { Payload(Undefined, t) : t \in { <<>>, <<LBRACE, LETTER>> } }
  \cup { Payload(v, JSONstringify(v)) :
           v \in { SmallPlan,
                   ProjectPlan(JArr(<<JObj(<<Member("title", Word)>>)>>)) } }

\* Free text: prose, whitespace and stray sentinels.
TextChunks == {LETTER, SP, OPEN, CLOSE}
Texts == SeqsUpTo(TextChunks, MaxText)

\* Text after the block, among them a whole second block.
AfterTexts ==
  { <<>>, <<SP>>, <<SP, CLOSE>>,
    <<LETTER, OPEN>> \o JSONstringify(EmptyPlan) \o <<CLOSE, LETTER>> }

\* Whitespace around the payload inside the tags.
Pads == { <<>>, <<SP>> }

\* What the server attaches as message.projectPlan.
SideChannels == { Undefined, SmallPlan }

\* An assistant reply: how its text is composed, and the attached value.
\* plan is the value whose JSON text the payload is (undefined if none).
Reply(before, open, lpad, plan, payload, rpad, close, after, side) ==
  [before |-> before, open |-> open, lpad |-> lpad, plan |-> plan,
   payload |-> payload, rpad |-> rpad, close |-> close, after |-> after,
   side |-> side]

Replies ==
  \* every context around a block with one of the core payloads
  { Reply(b, TRUE, <<>>, p.plan, p.text, <<>>, TRUE, a, s) :
      b \in Texts, p \in CorePayloads, a \in AfterTexts, s \in SideChannels }
  \* a payload with one or both of its sentinels missing
  \cup { Reply(b, o, <<>>, SmallPlan, JSONstringify(SmallPlan), <<>>, c, <<>>, s) :
           b \in Texts, o \in BOOLEAN, c \in {FALSE}, s \in SideChannels }
  \cup { Reply(b, FALSE, <<>>, SmallPlan, JSONstringify(SmallPlan), <<>>, TRUE,
               <<>>, s) :
           b \in Texts, s \in SideChannels }
  \* every value and every malformed payload inside a block, with and
  \* without padding
  \cup { Reply(<<LETTER>>, TRUE, pad, v, JSONstringify(v), pad, TRUE,
               <<LETTER>>, Undefined) :
           pad \in Pads, v \in Values }
  \cup { Reply(<<LETTER>>, TRUE, pad, Undefined, t, pad, TRUE, <<>>, SmallPlan) :
           pad \in Pads, t \in MalformedPayloads }
  \* every value as the side channel of a reply without a block
  \cup { Reply(<<LETTER>>, FALSE, <<>>, Undefined, <<>>, <<>>, FALSE, <<>>, v) :
           v \in Values }

\* The message text of a reply.
ContentOf(r) ==
  r.before
    \o (IF r.open THEN <<OPEN>> ELSE <<>>)
    \o r.lpad \o r.payload \o r.rpad
    \o (IF r.close THEN <<CLOSE>> ELSE <<>>)
    \o r.after

\* ------------------------------------------------------------------------
\* The server: plan-request detection
\* ------------------------------------------------------------------------
\* Words of a user's text; a word is one chunk, in the spellings below.
PROJECT == "project"
PROJECT_CAP == "Project"
PLAN == "plan"
PLAN_UPPER == "PLAN"

\* The case folding of the regular expression's i flag.
ToLowerCase(c) ==
  CASE c = PROJECT_CAP -> PROJECT
    [] c = PLAN_UPPER -> PLAN
    [] OTHER -> c

\* The position after the longest run of whitespace chunks starting at i.
RECURSIVE SkipSpaces(_, _)
SkipSpaces(text, i) ==
  IF i <= Len(text) /\ IsSpace(text[i]) THEN SkipSpaces(text, i + 1) ELSE i

\* /project\s+plan/ matched case-sensitively.
isProjectPlanRequest_CaseSensitive(text) ==
  \E i \in 1..Len(text) :
    /\ text[i] = PROJECT
    /\ LET j == SkipSpaces(text, i + 1)
       IN j > i + 1 /\ j <= Len(text) /\ text[j] = PLAN

\* /project\s+plan/i.test(text): at some position "project", then the
\* longest run of one or more whitespace characters, then "plan".
isProjectPlanRequest(text) ==
  \E i \in 1..Len(text) :
    /\ ToLowerCase(text[i]) = PROJECT
    /\ LET j == SkipSpaces(text, i + 1)
       IN j > i + 1 /\ j <= Len(text) /\ ToLowerCase(text[j]) = PLAN

\* The texts given to the detection.
RequestChunks == {PROJECT, PROJECT_CAP, PLAN, PLAN_UPPER, SP, NEWLINE, LETTER}
RequestTexts == SeqsUpTo(RequestChunks, MaxWords)

\* ------------------------------------------------------------------------
\* The server: the chat store and the send-message route
\* ------------------------------------------------------------------------
\* buildProjectPlanSystemPrompt(): the fixed instruction, as one chunk.
buildProjectPlanSystemPrompt ==
  JStr(<<"When (and only when) the user is requesting a project plan, ...">>)

\* extractProjectPlanJson(content); null = TRUE stands for null.
NoJson == [null |-> TRUE, text |-> <<>>]

\* The slice returned without trim().
extractProjectPlanJson_Untrimmed(content) ==
  LET start == IndexOf(content, OPEN)
      end == IndexOf(content, CLOSE)
  IN IF start = -1 \/ end = -1 \/ end <= start
     THEN NoJson
     ELSE [null |-> FALSE, text |-> Slice(content, start + 1, end)]

extractProjectPlanJson(content) ==
  LET start == IndexOf(content, OPEN)
      end == IndexOf(content, CLOSE)
  IN IF start = -1 \/ end = -1 \/ end <= start
     THEN NoJson
     ELSE [null |-> FALSE, text |-> Trim(Slice(content, start + 1, end))]

\* A stored Message; projectPlan = Undefined stands for an absent field.
\* Timestamps are left out.
UserMessage(id, content) ==
  [id |-> id, role |-> "user", content |-> Trim(content),
   projectPlan |-> Undefined]

\* The assistant message with the payload text attached when JSON.parse
\* throws.
AssistantMessage_KeepsUndecodable(id, assistantResponse) ==
  LET planJson == extractProjectPlanJson(assistantResponse)
  IN [id |-> id, role |-> "assistant", content |-> assistantResponse,
      projectPlan |->
        IF planJson.null \/ planJson.text = <<>> THEN Undefined
        ELSE IF JSONparse(planJson.text).threw THEN JStr(planJson.text)
        ELSE JSONparse(planJson.text).v]

\* The assistant message of a response: the projectPlan field is assigned
\* when planJson is a non-empty string and JSON.parse does not throw.
AssistantMessage(id, assistantResponse) ==
  LET planJson == extractProjectPlanJson(assistantResponse)
  IN [id |-> id, role |-> "assistant", content |-> assistantResponse,
      projectPlan |->
        IF planJson.null \/ planJson.text = <<>> THEN Undefined
        ELSE IF JSONparse(planJson.text).threw THEN Undefined
        ELSE JSONparse(planJson.text).v]

\* chatStore.createChat() without a name: the generated name, no messages,
\* no provider or model selected.  The identifier is the position in the
\* store; chatCounter is the number of chats created.
NewChat(id) ==
  [id |-> id, name |-> <<"Chat ", ToString(id)>>, messages |-> <<>>,
   llmProvider |-> Undefined, llmModel |-> Undefined]

\* process.env.LLM_PROVIDER: not set.
EnvProvider == Undefined

\* LLMProviderFactory.create(providerType): the type of the provider made.
LLMProviderFactory_create(providerType) ==
  IF ~Falsy(providerType) THEN providerType
  ELSE IF ~Falsy(EnvProvider) THEN EnvProvider
  ELSE JStr(<<"anthropic">>)

\* The body of a PATCH .../model request and the values tried for it.
ModelBody(provider, model) == [provider |-> provider, model |-> model]

ModelBodies ==
  { ModelBody(JStr(<<"anthropic">>), JStr(<<SP, LETTER, SP>>)),
    ModelBody(JStr(<<"openai">>), JStr(<<LETTER>>)),
    ModelBody(JStr(<<"gemini">>), JStr(<<LETTER>>)),
    ModelBody(JStr(<<"llama">>), JStr(<<LETTER>>)),
    ModelBody(Undefined, JStr(<<LETTER>>)),
    ModelBody(JStr(<<"openai">>), JStr(<<SP>>)),
    ModelBody(JStr(<<"openai">>), Undefined) }

\* A PATCH .../model request with its reply: status, error code, and the
\* chat sent back (none on an error).
ModelReply(chatId, body, status, code, sent) ==
  [chatId |-> chatId, body |-> body, status |-> status, code |-> code,
   sent |-> sent]

NoModelReply == ModelReply(0, ModelBody(Undefined, Undefined), 0, "", <<>>)

\* The arguments of a provider.sendMessage call.
LLMCall(conversationHistory, systemPrompt, provider, model) ==
  [called |-> TRUE, messages |-> conversationHistory,
   systemPrompt |-> systemPrompt, provider |-> provider, model |-> model]

NoCall ==
  [called |-> FALSE, messages |-> <<>>, systemPrompt |-> Undefined,
   provider |-> Undefined, model |-> Undefined]

\* The reply of the send-message route: status, error code, and the two
\* messages of a successful reply.
Response(status, code, sent) == [status |-> status, code |-> code, sent |-> sent]
NoResponse == Response(0, "", <<>>)

\* A send-message request: where its handler stands (idle: not received,
\* awaiting: suspended at the provider call, replied), its parameters, the
\* user message it stored, the chat's messages when it arrived, its provider
\* call, what the call resolved with (assistantResponse), and its reply.
SendRequest(pc, chatId, body, userMessage, before, call, response) ==
  [pc |-> pc, chatId |-> chatId, content |-> body, userMessage |-> userMessage,
   before |-> before, call |-> call, assistantResponse |-> <<>>,
   response |-> response]

IdleRequest == SendRequest("idle", 0, Undefined, <<>>, <<>>, NoCall, NoResponse)

Slots == 1..MaxRequests
ChatIds == 1..MaxChats

\* request.body.content: absent, not a string, empty, blank, a plain text, and a
\* plan request with surrounding whitespace.
PlainText == <<LETTER>>
PlanRequestText == <<SP, PROJECT_CAP, NEWLINE, PLAN, SP>>
Bodies ==
  { Undefined, JNum(<<DIGIT>>), JStr(<<>>), JStr(<<SP>>), JStr(PlainText),
    JStr(PlanRequestText) }

\* What the provider answers: no block, a plan block inside text, the
\* sentinels in the wrong order, a blank payload, an undecodable payload,
\* and a payload that decodes to null.
LLMResponses ==
  { <<LETTER>>,
    <<LETTER, OPEN, SP>> \o JSONstringify(EmptyPlan) \o <<CLOSE, LETTER>>,
    <<CLOSE, LETTER, OPEN>>,
    <<OPEN, SP, CLOSE>>,
    <<OPEN, LBRACE, CLOSE>>,
    <<OPEN, NULLLIT, CLOSE>> }

\* ------------------------------------------------------------------------
\* The server: the authentication hook
\* ------------------------------------------------------------------------
\* A URL is a sequence of chunks: "/" and the words between slashes, or the
\* scheme and host of a request target in absolute form.
SLASH == "/"
ORIGIN == "http://host"

\* url.startsWith(route)
StartsWith(url, route) ==
  /\ Len(route) <= Len(url)
  /\ SubSeq(url, 1, Len(route)) = route

\* const publicRoutes = ['/', '/api/chats']
publicRoutes == << <<SLASH>>, <<SLASH, "api", SLASH, "chats">> >>

\* The keys of testUsers.
testUsers == { <<"richard">>, <<"alice">> }

\* The request seen by the hook, and what the hook did with it: the status
\* it sent (0: none, the request goes on to its route) and request.userId.
HttpRequest(url, authorization) == [url |-> url, authorization |-> authorization]
HookResult(status, userId) == [ran |-> TRUE, status |-> status, userId |-> userId]
NotHooked == [ran |-> FALSE, status |-> 0, userId |-> Undefined]

\* The preHandler hook.
preHandler(request) ==
  LET isPublicRoute ==
        \E i \in 1..Len(publicRoutes) : StartsWith(request.url, publicRoutes[i])
      userId == request.authorization
  IN IF isPublicRoute THEN HookResult(0, JStr(<<"richard">>))
     ELSE IF Falsy(userId) \/ userId.s \notin testUsers
          THEN HookResult(401, Undefined)
          ELSE HookResult(0, userId)

\* Request targets: a path, or a path behind scheme and host.
Urls ==
  LET PathChunks == {SLASH, "api", "chats", "user"}
  IN { <<SLASH>> \o t : t \in SeqsUpTo(PathChunks, MaxPath) }
       \cup { <<ORIGIN, SLASH>> \o t : t \in SeqsUpTo(PathChunks, MaxPath - 1) }

\* The authorization header: absent, empty, a test user, a stranger.
Authorizations ==
  { Undefined, JStr(<<>>), JStr(<<"alice">>), JStr(<<"mallory">>) }

\* ------------------------------------------------------------------------
\* The client: the home page and its persisted selection
\* ------------------------------------------------------------------------
\* The n-th id drawn by randomUUID(), as chunks.
Uuid(n) == <<"uuid", ToString(n)>>

\* The chat that may exist before the page loads.
OldChat == Uuid(1)

\* loadSelectedChatId(), given the stored item (null when absent).
loadSelectedChatId(item) ==
  IF ~Falsy(item) /\ Len(Trim(item.s)) > 0 THEN item ELSE JNull

\* saveSelectedChatId(chatId): the stored item afterwards.
saveSelectedChatId(id) ==
  IF Falsy(id) THEN JNull ELSE id

\* chatsQuery.data: undefined until a fetch has succeeded, then the ids of
\* the fetched chats.
NoData == [loaded |-> FALSE, ids |-> {}]
Data(ids) == [loaded |-> TRUE, ids |-> ids]

\* The state the page was last rendered with.
Rendered(chatId, restored, data) ==
  [mounted |-> TRUE, chatId |-> chatId, hasRestoredSelection |-> restored,
   data |-> data]
Unmounted ==
  [mounted |-> FALSE, chatId |-> JNull, hasRestoredSelection |-> FALSE,
   data |-> NoData]

\* The effect that persists the selection: the stored item afterwards.
PersistEffect_Unguarded(chatId, restored, item) ==
  saveSelectedChatId(chatId)

PersistEffect(chatId, restored, item) ==
  IF ~restored THEN item ELSE saveSelectedChatId(chatId)

\* The effect that checks the selection against the chat list: whether it
\* calls setChatId(null).
StaleEffectClears(chatId, restored, data) ==
  /\ restored
  /\ ~Falsy(chatId)
  /\ data.loaded
  /\ ~(\E c \in data.ids : c = chatId.s)

\* ------------------------------------------------------------------------
\* State
\* ------------------------------------------------------------------------
VARIABLES
  reply,     \* the composition of the assistant reply being shown
  message,   \* the Message object: content and projectPlan
  returns,   \* what each call of parseProjectPlanMessage returned, in order
  regions,   \* the regions of the last render of MessageBody
  requestText,       \* a text given to isProjectPlanRequest
  wantsProjectPlan,  \* what isProjectPlanRequest returned for it, if called
  chats,     \* chatStore.chats: the chats in creation order, keyed by position
  requests,  \* the send-message requests, by slot
  nextId,    \* the next identifier randomUUID() hands out
  modelReply,  \* the latest PATCH .../model request with its reply
  httpRequest, \* a request arriving at the server
  hookResult,  \* what the preHandler hook did with it
  selectedChatId,       \* HomePage: the chatId state
  hasRestoredSelection, \* HomePage: the hasRestoredSelection state
  storedChatId,  \* local storage: the item tekkr.selectedChatId
  chatsData,     \* chatsQuery.data
  serverChatIds, \* the ids of the chats the server holds
  rendered,      \* the state HomePage was last rendered with
  created,       \* onCreateChat: the id of the created chat while it awaits
  uuids,         \* how many ids randomUUID() has drawn
  responseText,  \* an LLM response, as the server receives and the client shows it
  serverJson,    \* what the server's extractProjectPlanJson returned for it
  clientSplit    \* what the client's splitByProjectPlanTag returned for it

clientVars == <<reply, message, returns, regions>>
detectVars == <<requestText, wantsProjectPlan>>
serverVars == <<chats, requests, nextId, modelReply>>
authVars == <<httpRequest, hookResult>>
pageVars ==
  <<selectedChatId, hasRestoredSelection, storedChatId, chatsData,
    serverChatIds, rendered, created, uuids>>
locateVars == <<responseText, serverJson, clientSplit>>

vars ==
  <<reply, message, returns, regions, requestText, wantsProjectPlan,
    chats, requests, nextId, modelReply, httpRequest, hookResult,
    selectedChatId, hasRestoredSelection, storedChatId, chatsData,
    serverChatIds, rendered, created, uuids,
    responseText, serverJson, clientSplit>>

\* The variables outside each part of the system.
nonClientVars == <<detectVars, serverVars, authVars, pageVars, locateVars>>
nonDetectVars == <<clientVars, serverVars, authVars, pageVars, locateVars>>
nonServerVars == <<clientVars, detectVars, authVars, pageVars, locateVars>>
nonAuthVars == <<clientVars, detectVars, serverVars, pageVars, locateVars>>
nonPageVars == <<clientVars, detectVars, serverVars, authVars, locateVars>>
nonLocateVars == <<clientVars, detectVars, serverVars, authVars, pageVars>>

\* No response has been given to the two extractors.
LocateIdle ==
  /\ responseText = <<>>
  /\ serverJson = <<>>
  /\ clientSplit = <<>>

\* The home page before it mounts, nothing stored, no chat on the server.
Fresh ==
  /\ selectedChatId = JNull
  /\ hasRestoredSelection = FALSE
  /\ chatsData = NoData
  /\ rendered = Unmounted
  /\ created = JNull

PageIdle ==
  /\ Fresh
  /\ storedChatId = JNull
  /\ serverChatIds = {}
  /\ uuids = 1

\* No request has reached the hook.
AuthIdle ==
  /\ httpRequest = HttpRequest(<<SLASH>>, Undefined)
  /\ hookResult = NotHooked

\* An empty store and no request.
ServerIdle ==
  /\ chats = <<>>
  /\ requests = [r \in Slots |-> IdleRequest]
  /\ nextId = 1
  /\ modelReply = NoModelReply

\* No text has been given to the detection.
DetectIdle ==
  /\ requestText = <<>>
  /\ wantsProjectPlan = <<>>

\* No message is being shown.
ClientIdle ==
  /\ reply = Reply(<<>>, FALSE, <<>>, Undefined, <<>>, <<>>, FALSE, <<>>,
                   Undefined)
  /\ message = [role |-> "assistant", content |-> ContentOf(reply),
                projectPlan |-> reply.side]
  /\ returns = <<>>
  /\ regions = <<>>

Init ==
  /\ reply \in Replies
  /\ message = [role |-> "assistant", content |-> ContentOf(reply),
                projectPlan |-> reply.side]
  /\ returns = <<>>
  /\ regions = <<>>
  /\ DetectIdle
  /\ ServerIdle
  /\ AuthIdle
  /\ PageIdle
  /\ LocateIdle

\* A direct call parseProjectPlanMessage({content, projectPlan}).
Extract ==
  /\ Len(returns) < MaxRenders
  /\ returns' = Append(returns,
                  parseProjectPlanMessage(message.content, message.projectPlan))
  /\ UNCHANGED <<reply, message, regions, nonClientVars>>

\* MessageBody that deletes message.projectPlan once it has rendered.
MessageBody_ConsumesSideChannel ==
  /\ Len(returns) < MaxRenders
  /\ LET parsed == parseProjectPlanMessage(message.content, message.projectPlan)
     IN /\ returns' = Append(returns, parsed)
        /\ regions' = IF parsed.raised THEN <<>> ELSE Regions(parsed)
  /\ message' = [message EXCEPT !.projectPlan = Undefined]
  /\ UNCHANGED <<reply, nonClientVars>>

\* A render of <MessageBody message={message}/>.  An exception raised by the
\* parser leaves the render without output.
MessageBody ==
  /\ Len(returns) < MaxRenders
  /\ LET parsed == parseProjectPlanMessage(message.content, message.projectPlan)
     IN /\ returns' = Append(returns, parsed)
        /\ regions' = IF parsed.raised THEN <<>> ELSE Regions(parsed)
  /\ UNCHANGED <<reply, message, nonClientVars>>

Next == Extract \/ MessageBody

Spec == Init /\ [][Next]_vars

\* A call isProjectPlanRequest(requestText).
Detect ==
  /\ wantsProjectPlan = <<>>
  /\ wantsProjectPlan' = <<isProjectPlanRequest(requestText)>>
  /\ UNCHANGED <<requestText, nonDetectVars>>

InitDetect ==
  /\ requestText \in RequestTexts
  /\ wantsProjectPlan = <<>>
  /\ ClientIdle
  /\ ServerIdle
  /\ AuthIdle
  /\ PageIdle
  /\ LocateIdle

NextDetect == Detect

SpecDetect == InitDetect /\ [][NextDetect]_vars

\* POST /api/chats.
CreateChat ==
  /\ Len(chats) < MaxChats
  /\ chats' = Append(chats, NewChat(Len(chats) + 1))
  /\ UNCHANGED <<requests, nextId, modelReply, nonServerVars>>

\* chatStore.getChat(chatId) finds a chat.
HasChat(chatId) == chatId \in 1..Len(chats)

\* addMessage putting the message at the front of the list.
addMessage_Prepends(store, chatId, msg) ==
  [store EXCEPT ![chatId].messages = <<msg>> \o @]

\* chatStore.addMessage(chatId, message).
addMessage(store, chatId, msg) ==
  [store EXCEPT ![chatId].messages = Append(@, msg)]

\* The systemPrompt option decided from the whole conversation.
SystemPromptOf_AnyTurn(content, conversationHistory) ==
  IF \E i \in 1..Len(conversationHistory) :
       isProjectPlanRequest(conversationHistory[i].content)
  THEN buildProjectPlanSystemPrompt
  ELSE Undefined

\* The systemPrompt option of the provider call in a request with this
\* body content and conversation history.
SystemPromptOf(content, conversationHistory) ==
  IF isProjectPlanRequest(content)
  THEN buildProjectPlanSystemPrompt
  ELSE Undefined

\* A history of nothing but the newest message.
ConversationHistory_NewestOnly(store, chatId) ==
  SubSeq(store[chatId].messages, Len(store[chatId].messages),
         Len(store[chatId].messages))

\* updatedChat.messages, read from the store after the user message was
\* added.
ConversationHistory(store, chatId) == store[chatId].messages

\* The validation without the trim.
InvalidContent_NoTrim(content) ==
  \/ Falsy(content)
  \/ TypeOf(content) # "string"

\* !content || typeof content !== 'string' || content.trim().length === 0
InvalidContent(content) ==
  \/ Falsy(content)
  \/ TypeOf(content) # "string"
  \/ Len(Trim(content.s)) = 0

\* POST /api/chats/:chatId/messages up to the point where the handler
\* suspends at `await provider.sendMessage(...)`: validation, the chat
\* lookup, the user message, and the provider call with its arguments.
\* Slots are taken in order.
SendMessage(r, chatId, content) ==
  /\ requests[r].pc = "idle"
  /\ IF r = 1 THEN TRUE ELSE requests[r - 1].pc # "idle"
  /\ IF InvalidContent(content)
     THEN /\ requests' = [requests EXCEPT ![r] =
               SendRequest("replied", chatId, content, <<>>, <<>>, NoCall,
                           Response(400, "INVALID_REQUEST", <<>>))]
          /\ UNCHANGED <<chats, nextId>>
     ELSE IF ~HasChat(chatId)
     THEN /\ requests' = [requests EXCEPT ![r] =
               SendRequest("replied", chatId, content, <<>>, <<>>, NoCall,
                           Response(404, "CHAT_NOT_FOUND", <<>>))]
          /\ UNCHANGED <<chats, nextId>>
     ELSE LET chat == chats[chatId]
              userMessage == UserMessage(nextId, content.s)
              updated == addMessage(chats, chatId, userMessage)
              conversationHistory == ConversationHistory(updated, chatId)
          IN /\ chats' = updated
             /\ nextId' = nextId + 1
             /\ requests' = [requests EXCEPT ![r] =
                  SendRequest("awaiting", chatId, content, <<userMessage>>,
                    chat.messages,
                    LLMCall(conversationHistory,
                            SystemPromptOf(content.s, conversationHistory),
                            LLMProviderFactory_create(chat.llmProvider),
                            chat.llmModel),
                    NoResponse)]
  /\ UNCHANGED <<modelReply, nonServerVars>>

\* The provider call of request r resolves with assistantResponse: the
\* assistant message is built, stored, and both messages are sent back.
LLMReturns(r, assistantResponse) ==
  /\ requests[r].pc = "awaiting"
  /\ LET chatId == requests[r].chatId
         userMessage == requests[r].userMessage[1]
         assistantMessage == AssistantMessage(nextId, assistantResponse)
     IN /\ chats' = addMessage(chats, chatId, assistantMessage)
        /\ nextId' = nextId + 1
        /\ requests' = [requests EXCEPT
             ![r].pc = "replied",
             ![r].assistantResponse = assistantResponse,
             ![r].response =
               Response(200, "", <<userMessage, assistantMessage>>)]
  /\ UNCHANGED <<modelReply, nonServerVars>>

\* The filter replaced by cutting the list at the message.
WithoutMessage_CutsAtMessage(messages, id) ==
  LET at == { i \in 1..Len(messages) : messages[i].id = id }
  IN IF at = {} THEN messages
     ELSE SubSeq(messages, 1, (CHOOSE i \in at : TRUE) - 1)

\* The filter replaced by dropping the newest message of the chat.
WithoutMessage_DropsNewest(messages, id) ==
  SubSeq(messages, 1, Len(messages) - 1)

\* chatToUpdate.messages.filter((msg) => msg.id !== userMessage.id)
WithoutMessage(messages, id) == SelectSeq(messages, LAMBDA msg : msg.id # id)

\* The provider call of request r rejects: the user message is filtered
\* out of the chat and the reply is 500 LLM_ERROR.
LLMThrows(r) ==
  /\ requests[r].pc = "awaiting"
  /\ LET chatId == requests[r].chatId
         userMessage == requests[r].userMessage[1]
     IN /\ chats' = [chats EXCEPT ![chatId].messages =
                       WithoutMessage(@, userMessage.id)]
        /\ requests' = [requests EXCEPT
             ![r].pc = "replied",
             ![r].response = Response(500, "LLM_ERROR", <<>>)]
  /\ UNCHANGED <<nextId, modelReply, nonServerVars>>

\* Object.assign that drops the other fields of the chat.
updateChat_ReplacesChat(store, chatId, updates) ==
  [store EXCEPT ![chatId] =
     [NewChat(chatId) EXCEPT !.llmProvider = updates.llmProvider,
                             !.llmModel = updates.llmModel]]

\* chatStore.updateChat(chatId, updates) with updates of llmProvider and
\* llmModel: Object.assign(chat, updates).
updateChat(store, chatId, updates) ==
  [store EXCEPT ![chatId].llmProvider = updates.llmProvider,
                ![chatId].llmModel = updates.llmModel]

\* PATCH /api/chats/:chatId/model: the two validations, the chat lookup,
\* the update, and the reply with the updated chat.
UpdateModel(chatId, body) ==
  /\ LET provider == body.provider
         model == body.model
     IN IF \/ Falsy(provider)
           \/ /\ provider # JStr(<<"anthropic">>)
              /\ provider # JStr(<<"openai">>)
              /\ provider # JStr(<<"gemini">>)
        THEN /\ modelReply' = ModelReply(chatId, body, 400, "INVALID_REQUEST", <<>>)
             /\ UNCHANGED chats
        ELSE IF Falsy(model) \/ TypeOf(model) # "string"
                  \/ Len(Trim(model.s)) = 0
        THEN /\ modelReply' = ModelReply(chatId, body, 400, "INVALID_REQUEST", <<>>)
             /\ UNCHANGED chats
        ELSE IF ~HasChat(chatId)
        THEN /\ modelReply' = ModelReply(chatId, body, 404, "CHAT_NOT_FOUND", <<>>)
             /\ UNCHANGED chats
        ELSE LET updated ==
                   updateChat(chats, chatId,
                     [llmProvider |-> provider, llmModel |-> JStr(Trim(model.s))])
             IN /\ chats' = updated
                /\ modelReply' = ModelReply(chatId, body, 200, "", <<updated[chatId]>>)
  /\ UNCHANGED <<requests, nextId, nonServerVars>>

InitServer ==
  /\ ServerIdle
  /\ ClientIdle
  /\ DetectIdle
  /\ AuthIdle
  /\ PageIdle
  /\ LocateIdle

\* The hook runs on the request.
PreHandler ==
  /\ ~hookResult.ran
  /\ hookResult' = preHandler(httpRequest)
  /\ UNCHANGED <<httpRequest, nonAuthVars>>

InitAuth ==
  /\ httpRequest \in { HttpRequest(url, a) : url \in Urls, a \in Authorizations }
  /\ hookResult = NotHooked
  /\ ClientIdle
  /\ DetectIdle
  /\ ServerIdle
  /\ PageIdle
  /\ LocateIdle

NextAuth == PreHandler

SpecAuth == InitAuth /\ [][NextAuth]_vars

\* ------------------------------------------------------------------------
\* The home page
\* ------------------------------------------------------------------------
\* HomePage renders and its effects run, in the order they are declared and
\* with the values of this render: on mount all of them, afterwards those
\* with a changed dependency. The state they set takes effect together.
Render ==
  LET mount == ~rendered.mounted
      chatIdChanged == selectedChatId # rendered.chatId
      restoredChanged == hasRestoredSelection # rendered.hasRestoredSelection
      dataChanged == chatsData # rendered.data
      restored == loadSelectedChatId(storedChatId)
      persists == mount \/ chatIdChanged \/ restoredChanged
      clears == StaleEffectClears(selectedChatId, hasRestoredSelection, chatsData)
  IN /\ mount \/ chatIdChanged \/ restoredChanged \/ dataChanged
     /\ rendered' = Rendered(selectedChatId, hasRestoredSelection, chatsData)
     /\ hasRestoredSelection' = (mount \/ hasRestoredSelection)
     /\ storedChatId' =
          IF persists
          THEN PersistEffect(selectedChatId, hasRestoredSelection, storedChatId)
          ELSE storedChatId
     /\ selectedChatId' =
          IF clears THEN JNull
          ELSE IF mount THEN restored
          ELSE selectedChatId
     /\ UNCHANGED <<chatsData, serverChatIds, created, uuids, nonPageVars>>

\* A fetch of the chat list succeeds.
ChatsFetched ==
  /\ rendered.mounted
  /\ chatsData' = Data(serverChatIds)
  /\ UNCHANGED <<selectedChatId, hasRestoredSelection, storedChatId,
                 serverChatIds, rendered, created, uuids, nonPageVars>>

\* The user picks a chat in the sidebar.
SelectChat(id) ==
  /\ rendered.mounted
  /\ id \in rendered.data.ids
  /\ selectedChatId' = JStr(id)
  /\ UNCHANGED <<hasRestoredSelection, storedChatId, chatsData,
                 serverChatIds, rendered, created, uuids, nonPageVars>>

\* onCreateChat up to the reply of POST /api/chats: the server stores a
\* chat under a new id.
CreateChatPosted ==
  /\ rendered.mounted
  /\ created = JNull
  /\ uuids <= MaxCreated
  /\ uuids' = uuids + 1
  /\ serverChatIds' = serverChatIds \cup {Uuid(uuids')}
  /\ created' = JStr(Uuid(uuids'))
  /\ UNCHANGED <<selectedChatId, hasRestoredSelection, storedChatId,
                 chatsData, rendered, nonPageVars>>

\* onCreateChat from there: the refetch started by invalidateQueries
\* settles, with the list or with a failure that keeps the data, and the
\* created chat is selected.
CreateChatSettled(refetched) ==
  /\ created # JNull
  /\ chatsData' = IF refetched THEN Data(serverChatIds) ELSE chatsData
  /\ selectedChatId' = created
  /\ created' = JNull
  /\ UNCHANGED <<hasRestoredSelection, storedChatId, serverChatIds,
                 rendered, uuids, nonPageVars>>

\* The backend restarts and its in-memory store is empty again.
ServerRestart ==
  /\ serverChatIds # {}
  /\ serverChatIds' = {}
  /\ UNCHANGED <<selectedChatId, hasRestoredSelection, storedChatId,
                 chatsData, rendered, created, uuids, nonPageVars>>

\* The page is loaded anew.
Reload ==
  /\ rendered.mounted
  /\ selectedChatId' = JNull
  /\ hasRestoredSelection' = FALSE
  /\ chatsData' = NoData
  /\ rendered' = Unmounted
  /\ created' = JNull
  /\ UNCHANGED <<storedChatId, serverChatIds, uuids, nonPageVars>>

\* The page loads with any item stored, with or without the chat it names.
InitPage ==
  /\ Fresh
  /\ storedChatId \in {JNull, JStr(<<SP>>), JStr(OldChat)}
  /\ serverChatIds \in {{}, {OldChat}}
  /\ uuids = 1
  /\ ClientIdle
  /\ DetectIdle
  /\ ServerIdle
  /\ AuthIdle
  /\ LocateIdle

NextPage ==
  \/ Render
  \/ ChatsFetched
  \/ \E id \in {Uuid(n) : n \in 1..(MaxCreated + 1)} : SelectChat(id)
  \/ CreateChatPosted
  \/ \E refetched \in BOOLEAN : CreateChatSettled(refetched)
  \/ ServerRestart
  \/ Reload

SpecPage == InitPage /\ [][NextPage]_vars

\* The model selection: chats, PATCH .../model requests, and send-message
\* requests with one body and one answer, taken from the first slots.
ModelSlots == 1..MaxModelSends

NextModel ==
  \/ CreateChat
  \/ \E chatId \in ChatIds, body \in ModelBodies : UpdateModel(chatId, body)
  \/ \E r \in ModelSlots, chatId \in ChatIds :
       SendMessage(r, chatId, JStr(PlainText))
  \/ \E r \in ModelSlots : LLMReturns(r, <<LETTER>>)
  \/ \E r \in ModelSlots : LLMThrows(r)

SpecModel == InitServer /\ [][NextModel]_vars

NextServer ==
  \/ CreateChat
  \/ \E r \in Slots, chatId \in ChatIds, content \in Bodies :
       SendMessage(r, chatId, content)
  \/ \E r \in Slots, assistantResponse \in LLMResponses :
       LLMReturns(r, assistantResponse)
  \/ \E r \in Slots : LLMThrows(r)

SpecServer == InitServer /\ [][NextServer]_vars

\* Sends on a chat that already holds an exchange: the chat after one
\* answered request, whose messages took the ids 1 and 2.
EarlierExchange ==
  <<UserMessage(1, PlainText), AssistantMessage(2, <<LETTER>>)>>

InitOverlap ==
  /\ chats = <<[NewChat(1) EXCEPT !.messages = EarlierExchange]>>
  /\ requests = [r \in Slots |-> IdleRequest]
  /\ nextId = 3
  /\ modelReply = NoModelReply
  /\ ClientIdle
  /\ DetectIdle
  /\ AuthIdle
  /\ PageIdle
  /\ LocateIdle

NextOverlap ==
  \/ \E r \in Slots, chatId \in ChatIds,
        content \in {JStr(<<>>), JStr(PlainText), JStr(PlanRequestText)} :
       SendMessage(r, chatId, content)
  \/ \E r \in Slots,
        assistantResponse \in {<<LETTER>>, <<OPEN, LBRACE, CLOSE>>} :
       LLMReturns(r, assistantResponse)
  \/ \E r \in Slots : LLMThrows(r)

SpecOverlap == InitOverlap /\ [][NextOverlap]_vars

\* ------------------------------------------------------------------------
\* One response through the server's and the client's extractor
\* ------------------------------------------------------------------------
ResponseTexts == SeqsUpTo({OPEN, CLOSE, SP, LETTER}, MaxResponse)

\* The server calls extractProjectPlanJson on the response.
ServerExtracts ==
  /\ serverJson = <<>>
  /\ serverJson' = <<extractProjectPlanJson(responseText)>>
  /\ UNCHANGED <<responseText, clientSplit, nonLocateVars>>

\* The client calls splitByProjectPlanTag on the same content.
ClientSplits ==
  /\ clientSplit = <<>>
  /\ clientSplit' = <<splitByProjectPlanTag(responseText)>>
  /\ UNCHANGED <<responseText, serverJson, nonLocateVars>>

InitLocate ==
  /\ responseText \in ResponseTexts
  /\ serverJson = <<>>
  /\ clientSplit = <<>>
  /\ ClientIdle
  /\ DetectIdle
  /\ ServerIdle
  /\ AuthIdle
  /\ PageIdle

NextLocate == ServerExtracts \/ ClientSplits

SpecLocate == InitLocate /\ [][NextLocate]_vars

\* The value returned by the latest call.
Last == returns[Len(returns)]

\* ------------------------------------------------------------------------
\* Vocabulary of the properties, stated on the message text itself
\* ------------------------------------------------------------------------
Called == Len(returns) > 0

Content == message.content
SideChannel == message.projectPlan

Occurs(text, c) == \E i \in 1..Len(text) : text[i] = c

\* Position of the first occurrence of c in text (only where c occurs).
First(text, c) ==
  CHOOSE i \in 1..Len(text) :
    text[i] = c /\ \A j \in 1..(i - 1) : text[j] # c

\* Both sentinels occur and the first closing one lies after the first
\* opening one.
WellOrdered(text) ==
  /\ Occurs(text, OPEN)
  /\ Occurs(text, CLOSE)
  /\ First(text, OPEN) < First(text, CLOSE)

\* The three parts of a well-ordered text around its first pair.
TextBefore(text) == SubSeq(text, 1, First(text, OPEN) - 1)
TextBetween(text) == SubSeq(text, First(text, OPEN) + 1, First(text, CLOSE) - 1)
TextAfter(text) == SubSeq(text, First(text, CLOSE) + 1, Len(text))

IsSubstring(sub, text) ==
  \E i \in 0..(Len(text) - Len(sub)) : SubSeq(text, i + 1, i + Len(sub)) = sub

\* The payload of the first pair decodes as JSON, and the decoded value.
Decodes == ~JSONparse(Trim(TextBetween(Content))).threw
Decoded == JSONparse(Trim(TextBetween(Content))).v

\* The ProjectPlan schema of the data model: a record whose workstreams is
\* a sequence of records with non-blank title and description and a
\* sequence of deliverables, each a record with non-blank title and
\* description.
NonBlank(v) == v.t = "string" /\ \E i \in 1..Len(v.s) : v.s[i] # SP

HasField(v, name) == \E i \in 1..Len(v.o) : v.o[i].k = <<name>>
Field(v, name) == v.o[CHOOSE i \in 1..Len(v.o) : v.o[i].k = <<name>>].v

TitledNode(v) ==
  /\ v.t = "object"
  /\ HasField(v, "title") /\ NonBlank(Field(v, "title"))
  /\ HasField(v, "description") /\ NonBlank(Field(v, "description"))

BadDeliverableAt(w, j) == ~TitledNode(Field(w, "deliverables").a[j])

WorkstreamOk(w) ==
  /\ TitledNode(w)
  /\ HasField(w, "deliverables")
  /\ Field(w, "deliverables").t = "array"
  /\ ~\E j \in 1..Len(Field(w, "deliverables").a) : BadDeliverableAt(w, j)

SatisfiesSchema(v) ==
  /\ v.t = "object"
  /\ HasField(v, "workstreams")
  /\ Field(v, "workstreams").t = "array"
  /\ ~\E i \in 1..Len(Field(v, "workstreams").a) :
        ~WorkstreamOk(Field(v, "workstreams").a[i])

\* The plan the fallback path is to deliver: the side channel if it
\* satisfies the schema, otherwise none.
FallbackPlan == IF SatisfiesSchema(SideChannel) THEN SideChannel ELSE JNull

\* ------------------------------------------------------------------------
\* C1  Totality: every call of parseProjectPlanMessage, whatever the content
\* and the side-channel value, returns a ParsedMessage of two texts and a
\* plan-or-null, and never raises.
\* ------------------------------------------------------------------------
C1_Total ==
  \A k \in 1..Len(returns) :
    /\ ~returns[k].raised
    /\ IsSubstring(returns[k].beforeText, Content)
    /\ IsSubstring(returns[k].afterText, Content)
    /\ returns[k].projectPlan.t \in {"null", "object"}

\* A call on a well-ordered block whose payload JSON.parse rejects, and a
\* call with a side channel that is not a record.
C1_Witness ==
  /\ Called
  /\ ~Last.raised
  /\ \/ WellOrdered(Content) /\ ~Decodes /\ Trim(TextBetween(Content)) # <<>>
     \/ ~WellOrdered(Content) /\ SideChannel.t = "number"

\* ------------------------------------------------------------------------
\* C2  Fail-closed on bad shape: a well-ordered pair whose payload decodes as
\* JSON but does not satisfy the ProjectPlan schema yields no plan, the full
\* original content as beforeText and the empty afterText.
\* ------------------------------------------------------------------------
C2_BadShapeFailsClosed ==
  (Called /\ WellOrdered(Content) /\ Decodes /\ ~SatisfiesSchema(Decoded))
    => Last = Returned(Content, <<>>, JNull)

\* ------------------------------------------------------------------------
\* C3  Fail-closed on bad JSON: a well-ordered pair whose trimmed payload is
\* not valid JSON (the empty payload included) yields no plan, the full
\* original content as beforeText and the empty afterText.
\* ------------------------------------------------------------------------
C3_BadJsonFailsClosed ==
  (Called /\ WellOrdered(Content) /\ ~Decodes)
    => Last = Returned(Content, <<>>, JNull)

\* A block with prose on both sides whose payload is empty or broken JSON,
\* returned whole as beforeText although a valid side channel is attached.
C3_Witness ==
  /\ Called
  /\ WellOrdered(Content) /\ ~Decodes
  /\ TextBefore(Content) # <<>> /\ TextAfter(Content) # <<>>
  /\ SideChannel = SmallPlan
  /\ Last.beforeText = Content /\ Last.afterText = <<>>

\* ------------------------------------------------------------------------
\* C4  Valid round-trip.
\* ------------------------------------------------------------------------
\* The reply is before + OPEN + padded JSON text of a schema-valid plan +
\* CLOSE + after.
RoundTripReply ==
  /\ reply.open /\ reply.close
  /\ reply.plan # Undefined
  /\ SatisfiesSchema(reply.plan)

RoundTripResult == Last = Returned(reply.before, reply.after, reply.plan)

\* C4 as claimed: for every schema-valid plan and all texts before and
\* after, the call returns before, after and the plan.
C4_RoundTripAnyText == (Called /\ RoundTripReply) => RoundTripResult

\* C4 amended: the round trip holds for every schema-valid plan and every
\* text after, provided the text before contains neither sentinel and the
\* JSON text of the plan does not contain the closing sentinel; whitespace
\* around the payload does not change the result.
C4_RoundTrip ==
  (/\ Called /\ RoundTripReply
   /\ ~Occurs(reply.before, OPEN) /\ ~Occurs(reply.before, CLOSE)
   /\ ~Occurs(reply.payload, CLOSE))
    => RoundTripResult

\* A padded two-workstream plan between prose comes back unchanged, and so
\* does a plan followed by a text that holds a closing sentinel.
C4_Witness ==
  /\ Called /\ RoundTripReply /\ RoundTripResult
  /\ \/ /\ reply.lpad # <<>>
        /\ Len(Field(reply.plan, "workstreams").a) = MaxWorkstreams
        /\ reply.before # <<>>
     \/ Occurs(reply.after, CLOSE) /\ reply.before # <<>>

\* ------------------------------------------------------------------------
\* C5  No-tags identity: when the content contains neither sentinel, the
\* result is the content as beforeText, the empty afterText, and as plan the
\* side channel if it is a valid plan, otherwise no plan.
\* ------------------------------------------------------------------------
C5_NoTagsIdentity ==
  (Called /\ ~Occurs(Content, OPEN) /\ ~Occurs(Content, CLOSE))
    => Last = Returned(Content, <<>>, FallbackPlan)

\* A tag-free text returned whole, once with the valid side channel as its
\* plan.
C5_Witness ==
  /\ Called
  /\ ~Occurs(Content, OPEN) /\ ~Occurs(Content, CLOSE)
  /\ Content # <<>>
  /\ SideChannel = SmallPlan /\ Last.projectPlan = SmallPlan

\* ------------------------------------------------------------------------
\* C6  Multiple tag pairs.
\* ------------------------------------------------------------------------
\* The content holds a first well-ordered pair and, after its closing
\* sentinel, a second one.
TwoPairs == WellOrdered(Content) /\ WellOrdered(TextAfter(Content))

\* The second pair, tags and payload.
SecondPair ==
  LET rest == TextAfter(Content)
  IN SubSeq(rest, First(rest, OPEN), First(rest, CLOSE))

\* C6 as claimed: with two pairs in the content, the second pair appears
\* verbatim inside afterText.
C6_SecondPairInAfterText ==
  (Called /\ TwoPairs) => IsSubstring(SecondPair, Last.afterText)

\* C6 amended: with two pairs in the content, only the first opening and
\* first closing sentinel are consulted.  When the first payload is the JSON
\* of a schema-valid plan, afterText is everything after the first closing
\* sentinel and holds the whole second pair verbatim; when the first
\* payload is not valid JSON, nothing is consumed, afterText is empty and
\* the second pair stays verbatim inside beforeText.
C6_FirstPairOnly ==
  (Called /\ TwoPairs) =>
    /\ (Decodes /\ SatisfiesSchema(Decoded)) =>
         /\ Last = Returned(TextBefore(Content), TextAfter(Content), Decoded)
         /\ IsSubstring(SecondPair, Last.afterText)
    /\ ~Decodes =>
         /\ Last.afterText = <<>>
         /\ IsSubstring(SecondPair, Last.beforeText)

\* Two pairs, the first with a valid plan: the second is in afterText.
C6_Witness ==
  /\ Called /\ TwoPairs
  /\ Decodes /\ SatisfiesSchema(Decoded)
  /\ Last.projectPlan = Decoded
  /\ IsSubstring(SecondPair, Last.afterText)

\* ------------------------------------------------------------------------
\* C7  Missing or misordered delimiters: when a sentinel is absent or the
\* first closing sentinel does not lie after the first opening one, tag
\* scanning finds no block, and the result is the content as beforeText and
\* the empty afterText, with a plan only if the side channel is a valid plan.
\* ------------------------------------------------------------------------
C7_NoBlockWithoutOrderedPair ==
  (Called /\ ~WellOrdered(Content)) =>
    /\ ~splitByProjectPlanTag(Content).found
    /\ Last.beforeText = Content
    /\ Last.afterText = <<>>
    /\ (Last.projectPlan # JNull) <=> SatisfiesSchema(SideChannel)

\* A closing sentinel ahead of the opening one, with a later closing
\* sentinel that would close a pair, and a valid side channel.
C7_Witness ==
  /\ Called
  /\ Occurs(Content, OPEN) /\ Occurs(Content, CLOSE)
  /\ First(Content, CLOSE) < First(Content, OPEN)
  /\ \E j \in 1..Len(Content) : Content[j] = CLOSE /\ j > First(Content, OPEN)
  /\ SideChannel = SmallPlan
  /\ Last = Returned(Content, <<>>, SmallPlan)

\* ------------------------------------------------------------------------
\* C8  Side-channel fallback: when tag scanning finds no block, the returned
\* plan is the side-channel value if and only if that value passes the
\* validator; an invalid side channel is ignored and no plan is returned.
\* ------------------------------------------------------------------------
C8_SideChannelFallback ==
  (Called /\ ~splitByProjectPlanTag(Content).found) =>
    /\ SatisfiesSchema(SideChannel) => Last.projectPlan = SideChannel
    /\ ~SatisfiesSchema(SideChannel) => Last.projectPlan = JNull

\* A supplied record that fails the schema, ignored.
C8_Witness ==
  /\ Called
  /\ ~splitByProjectPlanTag(Content).found
  /\ SideChannel.t = "object" /\ ~SatisfiesSchema(SideChannel)
  /\ HasField(SideChannel, "workstreams")
  /\ Last = Returned(Content, <<>>, JNull)

\* ------------------------------------------------------------------------
\* C9  The tag block takes precedence: for a content with a well-ordered
\* pair the result is the same for every side-channel value, and a payload
\* that is malformed or fails the schema gives no plan even when a valid
\* side channel is attached.
\* ------------------------------------------------------------------------
SideChannelProbes == { Undefined, EmptyPlan, SmallPlan }

C9_BlockBeforeSideChannel ==
  (Called /\ WellOrdered(Content)) =>
    /\ \A other \in SideChannelProbes :
         parseProjectPlanMessage(Content, other) = Last
    /\ (~Decodes \/ ~SatisfiesSchema(Decoded)) => Last.projectPlan = JNull

\* A block whose payload decodes but fails the schema, with a valid side
\* channel that is not used.
C9_Witness ==
  /\ Called /\ WellOrdered(Content)
  /\ Decodes /\ ~SatisfiesSchema(Decoded)
  /\ SideChannel = SmallPlan
  /\ Last.projectPlan = JNull

\* ------------------------------------------------------------------------
\* C10  All-or-nothing validation: isProjectPlan accepts a value only if it
\* is a record whose workstreams is a sequence in which every workstream
\* and every deliverable passes its check, and a returned plan is the
\* decoded payload or the side channel itself, never a repaired copy.
\* ------------------------------------------------------------------------
\* The values a call can hand to isProjectPlan in this state.
Candidates ==
  {SideChannel} \cup (IF WellOrdered(Content) /\ Decodes THEN {Decoded} ELSE {})

C10_AllOrNothing ==
  /\ \A v \in Candidates : isProjectPlan(v) => SatisfiesSchema(v)
  /\ Called /\ Last.projectPlan # JNull =>
       /\ Last.projectPlan \in Candidates
       /\ SatisfiesSchema(Last.projectPlan)

\* A plan of good workstreams except for one bad deliverable at the last
\* place of the last workstream, rejected whole.
C10_Witness ==
  /\ Called /\ WellOrdered(Content) /\ Decodes
  /\ Decoded \in GeneratedPlans
  /\ LET ws == Field(Decoded, "workstreams").a
     IN /\ Len(ws) = MaxWorkstreams
        /\ \A i \in 1..(Len(ws) - 1) : WorkstreamOk(ws[i])
        /\ TitledNode(ws[Len(ws)])
        /\ HasField(ws[Len(ws)], "deliverables")
        /\ LET dl == Field(ws[Len(ws)], "deliverables").a
           IN /\ Len(dl) = MaxDeliverables
              /\ \A j \in 1..(Len(dl) - 1) : TitledNode(dl[j])
              /\ ~TitledNode(dl[Len(dl)])
  /\ Last.projectPlan = JNull

\* ------------------------------------------------------------------------
\* C11  Empty-string fields rejected: a plan in which a workstream or a
\* deliverable has a title or description that is empty or only whitespace
\* fails validation, so no returned plan has such a field.
\* ------------------------------------------------------------------------
\* A string with no chunk other than whitespace.
BlankText(v) == v.t = "string" /\ \A i \in 1..Len(v.s) : v.s[i] = SP

ElementsOf(v, name) ==
  IF v.t = "object" /\ HasField(v, name) /\ Field(v, name).t = "array"
  THEN {Field(v, name).a[i] : i \in 1..Len(Field(v, name).a)}
  ELSE {}

\* The record has a title or a description that is blank.
BlankField(n) ==
  /\ n.t = "object"
  /\ \E name \in {"title", "description"} :
       HasField(n, name) /\ BlankText(Field(n, name))

HasBlankNode(v) ==
  \E w \in ElementsOf(v, "workstreams") :
    \/ BlankField(w)
    \/ \E d \in ElementsOf(w, "deliverables") : BlankField(d)

C11_BlankFieldsRejected ==
  /\ \A v \in Candidates : HasBlankNode(v) => ~isProjectPlan(v)
  /\ (Called /\ Last.projectPlan # JNull) => ~HasBlankNode(Last.projectPlan)

\* A block whose plan is well-formed except for a whitespace-only string,
\* returned without a plan.
C11_Witness ==
  /\ Called /\ WellOrdered(Content) /\ Decodes
  /\ HasBlankNode(Decoded)
  /\ \E w \in ElementsOf(Decoded, "workstreams") :
       /\ w.t = "object" /\ HasField(w, "title") /\ HasField(w, "description")
       /\ \/ Field(w, "title").s = <<SP>>
          \/ Field(w, "description").s = <<SP, SP>>
  /\ Last.projectPlan = JNull

Pick(seq, S) ==
  LET F[i \in 0..Len(seq)] ==
        IF i = 0 THEN <<>>
        ELSE IF i \in S THEN Append(F[i - 1], seq[i]) ELSE F[i - 1]
  IN F[Len(seq)]

FullLayout(parsed) ==
     <<TextRegion(Trim(parsed.beforeText))>>
  \o (IF parsed.projectPlan # JNull
        THEN <<PlanRegion(parsed.projectPlan)>> ELSE <<>>)
  \o <<TextRegion(Trim(parsed.afterText))>>

PlanRegionsOf(r) == { i \in DOMAIN r : r[i].kind = "plan" }

C13_RegionOrder ==
  [][MessageBody =>
       LET parsed == returns'[Len(returns')]
           r == regions'
       IN /\ Len(r) <= 3
          /\ Cardinality(PlanRegionsOf(r)) <= 1
          /\ (PlanRegionsOf(r) # {}) <=> (parsed.projectPlan # JNull)
          /\ \E S \in SUBSET (1..3) : r = Pick(FullLayout(parsed), S)
          /\ \A i \in PlanRegionsOf(r) : r[i].plan = parsed.projectPlan]_vars

\* A render with text, plan, text, in that order, the two texts differing.
C13_Witness ==
  /\ Called
  /\ Len(regions) = 3
  /\ regions[1].kind = "text" /\ regions[2].kind = "plan"
  /\ regions[3].kind = "text"
  /\ regions[1].text = Trim(Last.beforeText)
  /\ regions[3].text = Trim(Last.afterText)
  /\ regions[1].text # regions[3].text
  /\ regions[2].plan = Last.projectPlan

\* ------------------------------------------------------------------------
\* C14  Region suppression: a render never emits a text region whose text
\* is empty or whitespace-only, and a message that is only a valid plan
\* block (nothing but whitespace before and after it) renders exactly one
\* region, the plan.
\* ------------------------------------------------------------------------
BlankChunks(text) == \A i \in 1..Len(text) : text[i] = SP

OnlyPlanBlock ==
  /\ WellOrdered(Content)
  /\ BlankChunks(TextBefore(Content))
  /\ BlankChunks(TextAfter(Content))
  /\ Decodes
  /\ SatisfiesSchema(Decoded)

C14_RegionSuppression ==
  [][MessageBody =>
       /\ \A i \in 1..Len(regions') :
            regions'[i].kind = "text" => ~BlankChunks(regions'[i].text)
       /\ OnlyPlanBlock => regions' = <<PlanRegion(Decoded)>>]_vars

\* A rendered message whose block stands between whitespace-only texts.
C14_Witness ==
  /\ Called
  /\ OnlyPlanBlock
  /\ Len(TextBefore(Content)) > 0
  /\ Len(TextAfter(Content)) > 0
  /\ Len(regions) = 1
  /\ regions[1].kind = "plan"

\* ------------------------------------------------------------------------
\* C15  Parse failure shows the literal text: whenever a render's parse
\* produced no plan, the render yields exactly one text region, the trimmed
\* original content with tags and payload, or no region when the content is
\* whitespace-only.
\* ------------------------------------------------------------------------
LiteralText ==
  IF BlankChunks(Content) THEN <<>> ELSE <<TextRegion(Trim(Content))>>

C15_LiteralTextOnFailure ==
  [][(MessageBody /\ returns'[Len(returns')].projectPlan = JNull)
       => regions' = LiteralText]_vars

\* ------------------------------------------------------------------------
\* C16  Pluralization: the plan panel's header gives the number of
\* workstreams with the singular "workstream" exactly when the plan has one
\* workstream, and the plural "workstreams" for zero or for two or more.
\* ------------------------------------------------------------------------
Singular == <<SP, "workstream">>
Plural == <<SP, "workstream", "s">>

WorkstreamCount(plan) == Len(Field(plan, "workstreams").a)

C16_Pluralization ==
  \A i \in 1..Len(regions) :
    regions[i].kind = "plan" =>
      LET n == WorkstreamCount(regions[i].plan)
      IN /\ regions[i].panel.count = n
         /\ regions[i].panel.text = (IF n = 1 THEN Singular ELSE Plural)

\* A rendered plan without workstreams, reported in the plural.
C16_Witness ==
  /\ Called
  /\ Len(regions) > 0
  /\ \E i \in 1..Len(regions) :
       /\ regions[i].kind = "plan"
       /\ WorkstreamCount(regions[i].plan) = 0
       /\ regions[i].panel.text = Plural

\* ------------------------------------------------------------------------
\* C17  Plan-request detection: isProjectPlanRequest(text) is true exactly
\* when text contains, compared case-insensitively, the literal phrase
\* "project plan".
\* ------------------------------------------------------------------------
Detected == wantsProjectPlan # <<>>

\* "project", one space, "plan" at some position of text, in any case.
ContainsLiteralPhrase(text) ==
  \E i \in 1..(Len(text) - 2) :
    /\ ToLowerCase(text[i]) = "project"
    /\ text[i + 1] = SP
    /\ ToLowerCase(text[i + 2]) = "plan"

\* "project" and a later "plan", in any case, with nothing but one or more
\* whitespace characters between them.
ContainsSpacedPhrase(text) ==
  \E i \in 1..Len(text) : \E j \in (i + 2)..Len(text) :
    /\ ToLowerCase(text[i]) = "project"
    /\ ToLowerCase(text[j]) = "plan"
    /\ \A k \in (i + 1)..(j - 1) : text[k] \in {SP, NEWLINE}

Calls == { r \in Slots : requests[r].call.called }

C18_PromptPerTurn ==
  \A r \in Calls :
    requests[r].call.systemPrompt =
      IF ContainsSpacedPhrase(requests[r].content.s)
      THEN buildProjectPlanSystemPrompt
      ELSE Undefined

\* A plain request called the provider without the instruction although an
\* earlier turn of its conversation history was a plan request that got it.
C18_Witness ==
  \E r \in Calls, q \in Calls :
    /\ requests[q].call.systemPrompt = buildProjectPlanSystemPrompt
    /\ requests[r].content = JStr(PlainText)
    /\ requests[r].call.systemPrompt = Undefined
    /\ \E i \in 1..(Len(requests[r].call.messages) - 1) :
         requests[r].call.messages[i] = requests[q].userMessage[1]

\* ------------------------------------------------------------------------
\* C19  Server side-channel population: a stored assistant message carries
\* a projectPlan field only when the response holds a well-ordered block
\* whose payload decoded as JSON; with the block absent, misordered, empty
\* or undecodable the field is absent; and the content is always the raw
\* response.
\* ------------------------------------------------------------------------
Answered == { r \in Slots : requests[r].response.status = 200 }

PayloadOf(text) == Trim(TextBetween(text))

PayloadDecodes(text) ==
  /\ WellOrdered(text)
  /\ PayloadOf(text) # <<>>
  /\ ~JSONparse(PayloadOf(text)).threw

C19_SideChannelPopulation ==
  \A r \in Answered :
    LET raw == requests[r].assistantResponse
        stored == requests[r].response.sent[2]
        messages == chats[requests[r].chatId].messages
    IN /\ \E i \in 1..Len(messages) : messages[i] = stored
       /\ stored.role = "assistant"
       /\ stored.content = raw
       /\ stored.projectPlan # Undefined => PayloadDecodes(raw)
       /\ ~PayloadDecodes(raw) => stored.projectPlan = Undefined
       /\ PayloadDecodes(raw) =>
            stored.projectPlan = JSONparse(PayloadOf(raw)).v

\* A stored assistant message with text around a block, carrying the plan.
C19_Witness ==
  \E c \in 1..Len(chats) : \E i \in 1..Len(chats[c].messages) :
    LET stored == chats[c].messages[i]
    IN /\ stored.role = "assistant"
       /\ WellOrdered(stored.content)
       /\ TextBefore(stored.content) # <<>>
       /\ TextBetween(stored.content) # PayloadOf(stored.content)
       /\ stored.projectPlan = EmptyPlan

\* ------------------------------------------------------------------------
\* C20  LLM failure rollback: when the provider call of a request fails,
\* the request's user message is removed, so the chat's messages are what
\* they were before the request; no assistant message is stored and the
\* reply is 500 LLM_ERROR.
\* ------------------------------------------------------------------------
Failed(r) ==
  /\ requests'[r].pc = "replied"
  /\ requests'[r].response = Response(500, "LLM_ERROR", <<>>)

AssistantCount(messages) ==
  Cardinality({ i \in 1..Len(messages) : messages[i].role = "assistant" })

\* As stated: the list is the one the request found on arrival.
C20_RestoresListBefore ==
  [][\A r \in Slots :
       LLMThrows(r) =>
         /\ chats'[requests[r].chatId].messages = requests[r].before
         /\ Failed(r)]_vars

\* messages without its element at position i.
Without(messages, i) ==
  SubSeq(messages, 1, i - 1) \o SubSeq(messages, i + 1, Len(messages))

\* C20 as amended: when the provider call of a request fails, exactly the
\* request's user message is removed from the chat and every other message,
\* of this and of every other chat, stays in place and in order; the list is
\* the one before the request if no other request changed the chat in
\* between; no assistant message is stored and the reply is 500 LLM_ERROR.
C20_RemovesOwnMessage ==
  [][\A r \in Slots :
       LLMThrows(r) =>
         LET c == requests[r].chatId
             own == requests[r].userMessage[1]
         IN /\ \E i \in 1..Len(chats[c].messages) :
                 /\ chats[c].messages[i] = own
                 /\ chats'[c].messages = Without(chats[c].messages, i)
            /\ \A i \in 1..Len(chats'[c].messages) :
                 chats'[c].messages[i].id # own.id
            /\ chats[c].messages = Append(requests[r].before, own)
                 => chats'[c].messages = requests[r].before
            /\ \A d \in 1..Len(chats) : d # c => chats'[d] = chats[d]
            /\ Len(chats') = Len(chats)
            /\ AssistantCount(chats'[c].messages)
                 = AssistantCount(chats[c].messages)
            /\ Failed(r)]_vars

\* The first request has failed while the second, on the same chat, still
\* awaits its answer: the chat holds the second request's user message.
C20_Witness ==
  /\ requests[1].response.code = "LLM_ERROR"
  /\ requests[2].pc = "awaiting"
  /\ requests[2].chatId = requests[1].chatId
  /\ requests[2].before # <<>>
  /\ chats[requests[1].chatId].messages = requests[2].userMessage
  /\ chats[requests[1].chatId].messages # requests[1].before

\* ------------------------------------------------------------------------
\* C21  Successful send appends a pair: a request whose provider call
\* succeeds adds exactly two messages to the chat, the user message with the
\* trimmed content and after it the assistant message, and returns both;
\* after non-overlapping requests the chat's messages alternate user,
\* assistant, starting with user.
\* ------------------------------------------------------------------------
MessagesOf(c) == chats[c].messages

\* The positions of the chat's messages that carry this id.
PositionsOf(c, id) == { i \in 1..Len(MessagesOf(c)) : MessagesOf(c)[i].id = id }

OnChat(c) == { r \in Slots : requests[r].chatId = c }
Awaiting == { r \in Slots : requests[r].pc = "awaiting" }

\* Request r arrived while request q on the same chat awaited its answer:
\* r found q's user message but not yet q's assistant message.
Overlap(q, r) ==
  /\ q # r
  /\ requests[q].userMessage # <<>> /\ requests[r].userMessage # <<>>
  /\ requests[q].chatId = requests[r].chatId
  /\ \E i \in 1..Len(requests[r].before) :
       requests[r].before[i] = requests[q].userMessage[1]
  /\ ~(/\ q \in Answered
       /\ \E i \in 1..Len(requests[r].before) :
            requests[r].before[i] = requests[q].response.sent[2])

NoOverlapOn(c) == \A q \in OnChat(c), r \in OnChat(c) : ~Overlap(q, r)

Alternates(messages) ==
  \A i \in 1..Len(messages) :
    messages[i].role = (IF i % 2 = 1 THEN "user" ELSE "assistant")

C21_SendAppendsPair ==
  /\ \A r \in Answered :
       LET c == requests[r].chatId
           user == requests[r].response.sent[1]
           assistant == requests[r].response.sent[2]
       IN /\ Len(requests[r].response.sent) = 2
          /\ user = requests[r].userMessage[1]
          /\ user.role = "user"
          /\ user.content = Trim(requests[r].content.s)
          /\ assistant.role = "assistant"
          /\ \E i \in 1..Len(MessagesOf(c)) : \E j \in (i + 1)..Len(MessagesOf(c)) :
               /\ MessagesOf(c)[i] = user /\ PositionsOf(c, user.id) = {i}
               /\ MessagesOf(c)[j] = assistant
               /\ PositionsOf(c, assistant.id) = {j}
  /\ \A c \in 1..Len(chats) :
       /\ Len(MessagesOf(c)) = 2 * Cardinality(OnChat(c) \cap Answered)
                                 + Cardinality(OnChat(c) \cap Awaiting)
       /\ NoOverlapOn(c) => Alternates(MessagesOf(c))

\* Two requests, one after the other, both answered: user, assistant, user,
\* assistant, the first user message trimmed of its surrounding whitespace.
C21_Witness ==
  /\ Answered = {1, 2}
  /\ requests[1].chatId = requests[2].chatId
  /\ ~Overlap(1, 2)
  /\ Len(MessagesOf(requests[1].chatId)) = 4
  /\ requests[1].content = JStr(PlanRequestText)
  /\ MessagesOf(requests[1].chatId)[1].content # PlanRequestText

\* ------------------------------------------------------------------------
\* C22  Rejected requests leave the store unchanged: a request with missing,
\* non-string, empty or whitespace-only content is answered 400
\* INVALID_REQUEST and one naming an unknown chat 404 CHAT_NOT_FOUND; no chat
\* is created, no message is added to any chat, and the provider is not
\* called.
\* ------------------------------------------------------------------------
\* The body content is no text or a text of nothing but whitespace.
NoContent(body) ==
  \/ body.t # "string"
  \/ \A i \in 1..Len(body.s) : body.s[i] \in {SP, NEWLINE}

\* Request r is received in this step.
Received(r) == requests[r].pc = "idle" /\ requests'[r].pc # "idle"

Rejected(r, status, code) ==
  /\ requests'[r].pc = "replied"
  /\ requests'[r].response = Response(status, code, <<>>)
  /\ ~requests'[r].call.called
  /\ requests'[r].userMessage = <<>>
  /\ chats' = chats
  /\ nextId' = nextId

C23_HistoryIsWholeChat ==
  [][\A r \in Slots :
       (Received(r) /\ requests'[r].call.called) =>
         LET c == requests'[r].chatId
             history == requests'[r].call.messages
             own == requests'[r].userMessage[1]
         IN /\ history = chats'[c].messages
            /\ history = Append(chats[c].messages, own)
            /\ requests'[r].before = chats[c].messages
            /\ \A i \in 1..Len(chats[c].messages) : chats[c].messages[i].id # own.id]_vars

\* The second request, sent after the first was answered, passed the first
\* pair and its own user message.
C23_Witness ==
  /\ requests[2].pc = "awaiting"
  /\ 1 \in Answered
  /\ requests[2].call.messages =
       requests[1].response.sent \o requests[2].userMessage
  /\ requests[2].call.messages = MessagesOf(requests[2].chatId)

\* ------------------------------------------------------------------------
\* C24  Model update: PATCH .../model with a provider outside {anthropic,
\* openai, gemini} or an empty or whitespace-only model is answered 400, and
\* with an unknown chat 404, leaving the chats unchanged; a valid request
\* sets the chat's llmProvider and llmModel (the model trimmed) and nothing
\* else of the chat; and every later send-message request on that chat calls
\* the provider selected and passes that model.
\* ------------------------------------------------------------------------
Providers == { JStr(<<"anthropic">>), JStr(<<"openai">>), JStr(<<"gemini">>) }

AcceptedBody(body) ==
  /\ body.provider \in Providers
  /\ body.model.t = "string"
  /\ \E i \in 1..Len(body.model.s) : body.model.s[i] \notin {SP, NEWLINE}

\* The model with leading and trailing whitespace removed: the shortest
\* stretch of it holding all its other characters.
Trimmed(text) ==
  LET ink == { i \in 1..Len(text) : text[i] \notin {SP, NEWLINE} }
  IN SubSeq(text, CHOOSE i \in ink : \A j \in ink : i <= j,
                  CHOOSE i \in ink : \A j \in ink : i >= j)

C24_ModelUpdate ==
  [][/\ modelReply' # modelReply =>
          LET q == modelReply'
              c == q.chatId
          IN /\ ~AcceptedBody(q.body) =>
                  /\ q.status = 400 /\ q.sent = <<>>
                  /\ chats' = chats
             /\ (AcceptedBody(q.body) /\ c \notin 1..Len(chats)) =>
                  /\ q.status = 404 /\ q.sent = <<>>
                  /\ chats' = chats
             /\ (AcceptedBody(q.body) /\ c \in 1..Len(chats)) =>
                  /\ q.status = 200 /\ q.sent = <<chats'[c]>>
                  /\ chats'[c].llmProvider = q.body.provider
                  /\ chats'[c].llmModel = JStr(Trimmed(q.body.model.s))
                  /\ chats'[c].id = chats[c].id
                  /\ chats'[c].name = chats[c].name
                  /\ chats'[c].messages = chats[c].messages
                  /\ Len(chats') = Len(chats)
                  /\ \A d \in 1..Len(chats) : d # c => chats'[d] = chats[d]
     /\ \A c \in 1..Len(chats) :
          (\/ chats'[c].llmProvider # chats[c].llmProvider
           \/ chats'[c].llmModel # chats[c].llmModel) =>
            /\ modelReply'.status = 200
            /\ modelReply'.chatId = c
            /\ modelReply'.sent = <<chats'[c]>>
     /\ \A r \in Slots :
          (Received(r) /\ requests'[r].call.called
             /\ chats[requests'[r].chatId].llmProvider # Undefined) =>
            /\ requests'[r].call.provider = chats[requests'[r].chatId].llmProvider
            /\ requests'[r].call.model = chats[requests'[r].chatId].llmModel]_vars

\* A chat that held a message when its model was set, the model sent with
\* whitespace around it, and a later request on it that called the selected
\* provider with the trimmed model.
C24_Witness ==
  /\ modelReply.status = 200
  /\ modelReply.body = ModelBody(JStr(<<"anthropic">>), JStr(<<SP, LETTER, SP>>))
  /\ modelReply.sent[1].llmModel = JStr(<<LETTER>>)
  /\ \E r \in Slots :
       /\ requests[r].call.called
       /\ requests[r].chatId = modelReply.chatId
       /\ requests[r].call.provider = JStr(<<"anthropic">>)
       /\ requests[r].call.model = JStr(<<LETTER>>)

\* ------------------------------------------------------------------------
\* C25  Authentication is kept for non-chat routes: a request whose URL is
\* neither the root route nor under /api/chats and whose authorization
\* header is missing or names no known test user is answered 401 and gets no
\* userId.
\* ------------------------------------------------------------------------
RootRoute(url) == url = <<SLASH>>

ChatRoute(url) ==
  /\ Len(url) >= 4
  /\ url[1] = SLASH /\ url[2] = "api" /\ url[3] = SLASH /\ url[4] = "chats"

KnownUser(authorization) ==
  authorization.t = "string" /\ authorization.s \in testUsers

C25_AuthKeptForOtherRoutes ==
  (/\ hookResult.ran
   /\ ~RootRoute(httpRequest.url)
   /\ ~ChatRoute(httpRequest.url)
   /\ ~KnownUser(httpRequest.authorization))
    => (hookResult.status = 401 /\ hookResult.userId = Undefined)

\* ------------------------------------------------------------------------
\* C26  Selection restore on load: when the page mounts with a selected chat
\* id in local storage, the selection becomes that id, and the stored id is
\* neither removed nor overwritten while hasRestoredSelection is false.
\* ------------------------------------------------------------------------
Mounting == ~rendered.mounted /\ rendered'.mounted

StoresAnId == storedChatId.t = "string" /\ Trim(storedChatId.s) # <<>>

C26_SelectionRestored ==
  [][/\ (Mounting /\ StoresAnId)
          => (selectedChatId' = storedChatId /\ hasRestoredSelection')
     /\ ~hasRestoredSelection => storedChatId' = storedChatId]_vars

C26_Witness ==
  /\ rendered.mounted
  /\ hasRestoredSelection
  /\ ~rendered.hasRestoredSelection
  /\ selectedChatId = JStr(OldChat)
  /\ storedChatId = JStr(OldChat)

\* ------------------------------------------------------------------------
\* C27  Stale selection is cleared: once the selection is restored and the
\* chat list has loaded, a selected id that is not in the list is reset to
\* null and then removed from local storage, a selected id that is in the
\* list is not cleared, and a chat created with onCreateChat that the server
\* still holds stays selected.
\* ------------------------------------------------------------------------
Rendering == rendered'.mounted /\ rendered' # rendered

Checked == hasRestoredSelection /\ selectedChatId.t = "string" /\ chatsData.loaded

CreatedChats == {Uuid(n) : n \in 2..uuids}

C27_StaleSelectionCleared ==
  [][Rendering =>
       /\ (Checked /\ selectedChatId.s \notin chatsData.ids)
            => selectedChatId' = JNull
       /\ (hasRestoredSelection /\ selectedChatId = JNull
             /\ rendered.chatId # JNull)
            => storedChatId' = JNull
       /\ (Checked /\ selectedChatId.s \in chatsData.ids)
            => selectedChatId' = selectedChatId
       /\ (selectedChatId.t = "string"
             /\ selectedChatId.s \in CreatedChats \cap serverChatIds)
            => selectedChatId' = selectedChatId]_vars

\* ------------------------------------------------------------------------
\* C28  Overlapping sends on one chat lose nothing: when a request arrives
\* on a chat while another awaits the LLM, then once both have replied,
\* whatever the order of their steps and whichever of them failed, the chat
\* holds the user and the assistant message of each answered one exactly
\* once, the assistant message after its user message, holds no message of a
\* failed one, and holds the messages stored before the two in their order.
\* ------------------------------------------------------------------------
Replied(r) == requests[r].pc = "replied"

Rejects == { r \in Slots : requests[r].response.status = 500 }

\* The messages of the list that are not the user message of a request
\* other than q and r that failed.
SettledOf(messages, q, r) ==
  SelectSeq(messages,
    LAMBDA m : \A t \in Rejects \ {q, r} : requests[t].userMessage[1] # m)

Among(messages, kept) ==
  SelectSeq(messages, LAMBDA m : \E i \in 1..Len(kept) : kept[i] = m)

C28_OverlapLosesNothing ==
  \A q \in Slots, r \in Slots :
    (Overlap(q, r) /\ Replied(q) /\ Replied(r)) =>
      LET c == requests[q].chatId
          stored == SettledOf(requests[q].before, q, r)
      IN /\ \A x \in {q, r} :
              IF x \in Answered
              THEN \E i \in 1..Len(MessagesOf(c)) :
                   \E j \in (i + 1)..Len(MessagesOf(c)) :
                     /\ MessagesOf(c)[i] = requests[x].userMessage[1]
                     /\ PositionsOf(c, MessagesOf(c)[i].id) = {i}
                     /\ MessagesOf(c)[j] = requests[x].response.sent[2]
                     /\ MessagesOf(c)[j].role = "assistant"
                     /\ PositionsOf(c, MessagesOf(c)[j].id) = {j}
              ELSE /\ x \in Rejects
                   /\ PositionsOf(c, requests[x].userMessage[1].id) = {}
         /\ Among(MessagesOf(c), stored) = stored

\* The first request fails after the second, which arrived while the first
\* awaited, was answered: the earlier exchange and the second pair remain.
C28_Witness ==
  /\ Overlap(1, 2)
  /\ 1 \in Rejects /\ 2 \in Answered
  /\ requests[1].before = EarlierExchange
  /\ Len(MessagesOf(1)) = 4
  /\ MessagesOf(1)[3] = requests[2].userMessage[1]

\* ------------------------------------------------------------------------
\* C29  Server and client locate the same payload: for every response, the
\* server's extractProjectPlanJson returns null exactly when the client's
\* splitByProjectPlanTag returns null, and otherwise the trimmed payload
\* that the client has as jsonText.
\* ------------------------------------------------------------------------
BothApplied == serverJson # <<>> /\ clientSplit # <<>>

C29_SamePayload ==
  BothApplied =>
    /\ serverJson[1].null <=> ~clientSplit[1].found
    /\ ~serverJson[1].null => serverJson[1].text = clientSplit[1].jsonText

\* A payload after a space: both return it without the space.
C29_Witness ==
  /\ BothApplied
  /\ responseText = <<OPEN, SP, LETTER, CLOSE>>
  /\ ~serverJson[1].null
  /\ clientSplit[1].jsonText = <<LETTER>>

=============================================================================
